---- MODULE Spec2Model ----
(***************************************************************************)
(* A model of nenupytf's selection engine: the index search idx_of, the    *)
(* Lane reader (one .spectra file), the Spectrum catalogue (several lane   *)
(* files of one observation) and the SpecData container.                   *)
(*                                                                         *)
(* Units.  Times are integers counting backend ticks of 5.12e-6 s, so that *)
(* Lane.dt = fftlen * nfft2int ticks.  Frequencies are integers counting   *)
(* 1/FUnit of a channel width (200e6/1024 Hz), so that channel c sits at   *)
(* c * FUnit and Lane.df = FUnit / fftlen.  Python indices are 0-based and *)
(* are kept 0-based here; sequences are 1-based, At(s, i) reads s[i].      *)
(***************************************************************************)
EXTENDS Integers, Sequences, FiniteSets, TLC

VARIABLES
    array, value, low, high,          \* idx_of: its inputs and both results
    lane, req, _beam, _time, _freq,   \* a Lane object and the pending call
    warnings, raised, spec,           \* what the last call did
    obs, kw, sp, parts,               \* a Spectrum object and the pending call
    avg,                              \* the frame of a call of Spectrum.average
    ops,                              \* SpecData operands, the operation, its outcome
    stk,                              \* a NenuStokes object and its outcome
    lsel,                             \* the frame of a call of Lane.select
    calls,                            \* the calls already made on the object
    file                              \* a .spectra file and what _load made of it

varsIdx  == <<array, value, low, high>>
varsLane == <<lane, req, _beam, _time, _freq, warnings>>
varsOut  == <<raised, spec>>
varsSp   == <<obs, kw, sp, parts, avg>>
varsExt  == <<ops, stk, lsel, calls, file>>
vars     == <<varsIdx, varsLane, varsOut, varsSp, varsExt>>

None == "None"        \* no exception raised

NoBeam == 0 - 1        \* beam=None

NoRange == <<>>        \* time=None, freq=None

(***************************************************************************)
(* The variables of the parts a specification does not use stay idle       *)
(***************************************************************************)
IdxIdle == array = <<>> /\ value = 0 /\ low = 0 /\ high = 0

SpIdle == obs = <<>> /\ kw = None /\ sp = None /\ parts = <<>> /\ avg = None

LaneIdle ==
    /\ lane = None /\ req = None
    /\ _beam = NoBeam /\ _time = NoRange /\ _freq = NoRange
    /\ warnings = 0

OpsIdle == ops = None

StkIdle == stk = None

LselIdle == lsel = None

CallsIdle == calls = <<>>

FileIdle == file = None

ExtIdle == OpsIdle /\ StkIdle /\ LselIdle /\ CallsIdle /\ FileIdle

(***************************************************************************)
(* Bounds of the model.                                                    *)
(***************************************************************************)
MaxLen == 3     \* longest array given to idx_of
MaxVal == 3     \* array elements are drawn from 0..MaxVal

(***************************************************************************)
(* Helpers for 0-based reading of sequences and for finite sets of numbers *)
(***************************************************************************)
At(s, i) == s[i + 1]

SetMax(S) == CHOOSE x \in S : \A y \in S : y <= x

SetMin(S) == CHOOSE x \in S : \A y \in S : x <= y

IsSorted(s) == \A i \in 1..(Len(s) - 1) : s[i] <= s[i + 1]

SeqsUpTo(S, n) == UNION {[1..k -> S] : k \in 1..n}

(***************************************************************************)
(* other/tools.py: idx_of(array, value, order).                            *)
(* diff = array - value; np.argwhere(diff == m)[0, 0] is the FIRST index   *)
(* at which diff equals m.                                                 *)
(***************************************************************************)
idx_of_last(a, v, order) ==
    \* mutant: argwhere(...)[-1, 0], the last matching index
    LET n    == Len(a)
        diff == [i \in 1..n |-> a[i] - v]
    IN  IF order = "low"
        THEN IF ~ \E i \in 1..n : a[i] <= v
             THEN 0
             ELSE LET m == SetMax({diff[i] : i \in {j \in 1..n : diff[j] <= 0}})
                  IN  SetMax({i \in 1..n : diff[i] = m}) - 1
        ELSE IF ~ \E i \in 1..n : a[i] >= v
             THEN n - 1
             ELSE LET m == SetMin({diff[i] : i \in {j \in 1..n : diff[j] >= 0}})
                  IN  SetMax({i \in 1..n : diff[i] = m}) - 1

idx_of_same(a, v, order) ==
    \* mutant: the 'high' branch searches like the 'low' branch
    LET n    == Len(a)
        diff == [i \in 1..n |-> a[i] - v]
    IN  IF ~ \E i \in 1..n : a[i] <= v
        THEN 0
        ELSE LET m == SetMax({diff[i] : i \in {j \in 1..n : diff[j] <= 0}})
             IN  SetMin({i \in 1..n : diff[i] = m}) - 1

idx_of(a, v, order) ==
    LET n    == Len(a)
        diff == [i \in 1..n |-> a[i] - v]
    IN  IF order = "low"
        THEN IF ~ \E i \in 1..n : a[i] <= v
             THEN 0
             ELSE LET m == SetMax({diff[i] : i \in {j \in 1..n : diff[j] <= 0}})
                  IN  SetMin({i \in 1..n : diff[i] = m}) - 1
        ELSE IF ~ \E i \in 1..n : a[i] >= v
             THEN n - 1
             ELSE LET m == SetMin({diff[i] : i \in {j \in 1..n : diff[j] >= 0}})
                  IN  SetMin({i \in 1..n : diff[i] = m}) - 1


(***************************************************************************)
(* read/lane.py: one .spectra file.  A lane file is the record             *)
(*   [id, TIMESTAMP, ntb, nffte, fftlen, nfft2int, beams, channels]        *)
(* of the header fields (Lane._load), the number of whole blocks and the   *)
(* beam/channel table of block 0 (Lane._parse_tf).                         *)
(***************************************************************************)
FUnit == 4      \* frequency units per channel width (so that df is whole)

RECURSIVE MaskSeq(_, _)
MaskSeq(s, m) ==
    \* numpy boolean indexing s[m]
    IF s = <<>> THEN <<>>
    ELSE (IF Head(m) THEN <<Head(s)>> ELSE <<>>) \o MaskSeq(Tail(s), Tail(m))

RECURSIVE bsearch(_, _, _, _)
bsearch(a, v, lo, hi) ==
    IF lo >= hi THEN lo
    ELSE LET mid == lo + ((hi - lo) \div 2)
         IN  IF At(a, mid) < v THEN bsearch(a, v, mid + 1, hi)
             ELSE bsearch(a, v, lo, mid)

searchsorted(a, v) == bsearch(a, v, 0, Len(a))

dt(l) == l.fftlen * l.nfft2int

block_dt_nofft(l) ==
    \* mutant: the duration of a block does not count fftlen
    l.nfft2int * l.nffte

block_dt(l) == dt(l) * l.nffte

df(l) == FUnit \div l.fftlen

_timestamps(l) == [i \in 1..l.ntb |-> (i - 1) * block_dt(l) + l.TIMESTAMP]

frequencies(l, b) ==
    LET ch == MaskSeq(l.channels, [i \in 1..Len(l.beams) |-> l.beams[i] = b])
    IN  [i \in 1..Len(ch) |-> ch[i] * FUnit]

Range(s) == {s[i] : i \in 1..Len(s)}

freq_min(l, b) == SetMin(Range(frequencies(l, b)))

freq_max(l, b) == SetMax(Range(frequencies(l, b))) + FUnit

time_min(l) == At(_timestamps(l), 0)

time_max(l) == At(_timestamps(l), l.ntb - 1) + block_dt(l)

(***************************************************************************)
(* The Lane object: o = [beam, time, freq, warnings, raised].  A setter    *)
(* that raises leaves the attribute it guards as it was.                   *)
(***************************************************************************)
beam_setter(l, o, b) ==
    LET bb == IF b = NoBeam THEN At(l.beams, 0) ELSE b
    IN  IF bb \notin Range(l.beams)
        THEN [o EXCEPT !.raised = "ValueError: Out of range beam selection"]
        ELSE [o EXCEPT !.beam = bb]

time_setter_defaults(l, o, t) ==
    \* mutant: any out-of-range bound is replaced by the default on its side
    IF t = NoRange
    THEN [o EXCEPT !.time = <<time_min(l), time_max(l)>>]
    ELSE LET w0 == t[1] < time_min(l) \/ t[1] > time_max(l)
             t0 == IF w0 THEN time_min(l) ELSE t[1]
             w1 == t[2] > time_max(l) \/ t[2] < time_min(l)
             t1 == IF w1 THEN time_max(l) ELSE t[2]
             o1 == [o EXCEPT !.warnings = @ + (IF w0 THEN 1 ELSE 0)
                                            + (IF w1 THEN 1 ELSE 0)]
         IN  IF t1 < t0
             THEN [o1 EXCEPT !.raised = "ValueError: Stop time < Start time"]
             ELSE [o1 EXCEPT !.time = <<t0, t1>>]

time_setter_reject(l, o, t) ==
    \* mutant: an out-of-range bound is rejected instead of clamped
    IF t = NoRange
    THEN [o EXCEPT !.time = <<time_min(l), time_max(l)>>]
    ELSE IF t[1] < time_min(l) \/ t[2] > time_max(l) \/ t[2] < t[1]
         THEN [o EXCEPT !.raised = "ValueError: Stop time < Start time"]
         ELSE [o EXCEPT !.time = <<t[1], t[2]>>]

time_setter(l, o, t) ==
    IF t = NoRange
    THEN [o EXCEPT !.time = <<time_min(l), time_max(l)>>]
    ELSE LET w0 == t[1] < time_min(l)
             t0 == IF w0 THEN time_min(l) ELSE t[1]
             w1 == t[2] > time_max(l)
             t1 == IF w1 THEN time_max(l) ELSE t[2]
             o1 == [o EXCEPT !.warnings = @ + (IF w0 THEN 1 ELSE 0)
                                            + (IF w1 THEN 1 ELSE 0)]
         IN  IF t1 < t0
             THEN [o1 EXCEPT !.raised = "ValueError: Stop time < Start time"]
             ELSE [o1 EXCEPT !.time = <<t0, t1>>]

freq_setter(l, o, f) ==
    IF f = NoRange
    THEN [o EXCEPT !.freq = <<freq_min(l, o.beam), freq_max(l, o.beam)>>]
    ELSE LET w0 == f[1] < freq_min(l, o.beam)
             f0 == IF w0 THEN freq_min(l, o.beam) ELSE f[1]
             w1 == f[2] > freq_max(l, o.beam)
             f1 == IF w1 THEN freq_max(l, o.beam) ELSE f[2]
             o1 == [o EXCEPT !.warnings = @ + (IF w0 THEN 1 ELSE 0)
                                            + (IF w1 THEN 1 ELSE 0)]
         IN  IF f1 < f0
             THEN [o1 EXCEPT !.raised = "ValueError: Max freq < Min freq"]
             ELSE [o1 EXCEPT !.freq = <<f0, f1>>]

\* Lane.__init__: beam, time and freq are set to None after the file is parsed
NewLane(l) ==
    freq_setter(l,
        time_setter(l,
            beam_setter(l,
                [beam |-> NoBeam, time |-> NoRange, freq |-> NoRange,
                 warnings |-> 0, raised |-> None],
                NoBeam),
            NoRange),
        NoRange)


(***************************************************************************)
(* stokes/specdata.py and stokes/stokes.py.  A SpecData is the record      *)
(* [time, freq, data, stokes]; data[i][j] names the raw sample(s) the cell *)
(* was computed from: <<lane id, block, sample in block, storage channel,  *)
(* raw fft bin>>.  Two cells computed from the same raw samples are equal. *)
(***************************************************************************)
NoSpec == [time |-> <<>>, freq |-> <<>>, data |-> <<>>, stokes |-> None]

SpecData(data, time, freq, stokes) ==
    [time |-> time, freq |-> freq, data |-> data, stokes |-> stokes]

\* SpecData.data setter: the two assertions on the shape
shape_any(data, time, freq) ==
    \* mutant: the data setter accepts any shape
    TRUE

shape_ok(data, time, freq) ==
    /\ Len(data) = Len(time)
    /\ \A i \in 1..Len(data) : Len(data[i]) = Len(freq)

\* NenuStokes.__getitem__ and NenuStokes.correct on the block slice
\* [tlo:thi, flo:fhi]: blocks and samples merge into rows, channels and bins
\* into columns, and the two halves of every channel are swapped.
correct_noswap(l, tlo, thi, flo, fhi) ==
    \* mutant: the halves of a beamlet are not inverted
    [r \in 1..((thi - tlo) * l.nffte) |->
        [c \in 1..((fhi - flo) * l.fftlen) |->
            <<l.id,
              tlo + ((r - 1) \div l.nffte),
              (r - 1) % l.nffte,
              flo + ((c - 1) \div l.fftlen),
              (c - 1) % l.fftlen>>]]

correct(l, tlo, thi, flo, fhi) ==
    [r \in 1..((thi - tlo) * l.nffte) |->
        [c \in 1..((fhi - flo) * l.fftlen) |->
            <<l.id,
              tlo + ((r - 1) \div l.nffte),
              (r - 1) % l.nffte,
              flo + ((c - 1) \div l.fftlen),
              (((c - 1) % l.fftlen) + (l.fftlen \div 2)) % l.fftlen>>]]

(***************************************************************************)
(* Lane.select and its helpers                                             *)
(***************************************************************************)
_t2bidx(l, time, order) == idx_of(_timestamps(l), time, order)

_f2bidx(l, b, frequency, order) ==
    idx_of(frequencies(l, b), frequency, order) + searchsorted(l.beams, b)

_check_memory_never(l, nt, nf, avail) ==
    \* mutant: the memory check never raises
    FALSE

\* Lane._check_memory: TRUE when MemoryError is raised.  Per element 4 float32
\* and 3 int32 are counted; the limit is 90% of the available bytes.
_check_memory(l, nt, nf, avail) ==
    LET n_elements == nt * l.nffte * nf * l.fftlen
    IN  (n_elements * 4 * 4 + n_elements * 3 * 4) * 10 > avail * 9

_get_time(l, id_min, id_max) ==
    [k \in 1..((id_max - id_min) * l.nffte) |->
        (k - 1) * dt(l) + At(_timestamps(l), id_min)]

_get_freq(l, b, id_min, id_max) ==
    LET beam_shift == searchsorted(l.beams, b)
        lo == id_min - beam_shift
        hi == id_max - beam_shift
        fr == frequencies(l, b)
    IN  [k \in 1..((hi - lo) * l.fftlen) |->
            ((k - 1) % l.fftlen) * df(l) + At(fr, lo + ((k - 1) \div l.fftlen))]

t_mask_closed(times, t) ==
    \* mutant: the upper bound is included
    [k \in 1..Len(times) |-> times[k] >= t[1] /\ times[k] <= t[2]]

t_mask(times, t) ==
    [k \in 1..Len(times) |-> times[k] >= t[1] /\ times[k] < t[2]]

f_mask(freqs, f) ==
    [k \in 1..Len(freqs) |-> freqs[k] >= f[1] /\ freqs[k] < f[2]]

Raise(o, what) == [o |-> [o EXCEPT !.raised = what], spec |-> NoSpec]

select_body(l, o, stokes, avail) ==
    \* Lane.select after the three setters succeeded
    IF o.time[2] - o.time[1] < dt(l)
    THEN Raise(o, "ValueError: Time interval selected < dt")
    ELSE IF o.freq[2] - o.freq[1] < df(l)
    THEN Raise(o, "ValueError: Frequency interval selected < df")
    ELSE
    LET tmin_idx == _t2bidx(l, o.time[1], "low")
        tmax_idx == _t2bidx(l, o.time[2], "high")
        fmin_idx == _f2bidx(l, o.beam, o.freq[1], "low")
        fmax_idx == _f2bidx(l, o.beam, o.freq[2], "high")
    IN  IF _check_memory(l, tmax_idx + 1 - tmin_idx, fmax_idx + 1 - fmin_idx, avail)
        THEN Raise(o, "MemoryError")
        ELSE
        LET times  == _get_time(l, tmin_idx, tmax_idx + 1)
            tm     == t_mask(times, o.time)
            freqs  == _get_freq(l, o.beam, fmin_idx, fmax_idx + 1)
            fm     == f_mask(freqs, o.freq)
        IN  IF l.fftlen % 2 # 0
            THEN Raise(o, "ValueError: Problem with fftlen value")
            ELSE IF tmax_idx + 1 > l.ntb \/ fmax_idx + 1 > Len(l.beams)
            THEN Raise(o, "ValueError: cannot reshape")
            ELSE
            LET spectrum == correct(l, tmin_idx, tmax_idx + 1, fmin_idx, fmax_idx + 1)
                data     == [i \in 1..Len(MaskSeq(times, tm)) |->
                                MaskSeq(MaskSeq(spectrum, tm)[i], fm)]
            IN  [o    |-> o,
                 spec |-> SpecData(data, MaskSeq(times, tm),
                                   MaskSeq(freqs, fm), stokes)]

select(l, o, stokes, time, freq, beam, avail) ==
    LET o1 == beam_setter(l, o, beam)
    IN  IF o1.raised # None THEN [o |-> o1, spec |-> NoSpec]
        ELSE LET o2 == time_setter(l, o1, time)
             IN  IF o2.raised # None THEN [o |-> o2, spec |-> NoSpec]
                 ELSE LET o3 == freq_setter(l, o2, freq)
                      IN  IF o3.raised # None THEN [o |-> o3, spec |-> NoSpec]
                          ELSE select_body(l, o3, stokes, avail)

(***************************************************************************)
(* SpecLane: one call of Lane.select on a freshly opened lane file, for    *)
(* every request around the file's bounds.                                 *)
(***************************************************************************)
Margin == 2     \* how far outside the file's bounds a requested bound may lie

LaneFiles ==
    {[id |-> 0, TIMESTAMP |-> 10, ntb |-> 2, nffte |-> 2, fftlen |-> 2,
      nfft2int |-> 1, beams |-> <<0, 0, 1>>, channels |-> <<5, 6, 9>>]}

AbsentBeam == 7

AvailMem == {400, 8000}

Pairs(lo, hi) == {<<a, b>> : a \in lo..hi, b \in lo..hi} \cup {NoRange}

TimeArgs(l) == Pairs(time_min(l) - Margin, time_max(l) + Margin)

FreqArgs(l, b) ==
    LET bb == IF b = NoBeam THEN At(l.beams, 0) ELSE b
    IN  IF bb \notin Range(l.beams) THEN {NoRange}
        ELSE Pairs(freq_min(l, bb) - Margin, freq_max(l, bb) + Margin)


InitLane ==
    /\ lane \in LaneFiles
    /\ \E b \in Range(lane.beams) \cup {NoBeam, AbsentBeam} :
       \E t \in TimeArgs(lane), f \in FreqArgs(lane, b), m \in AvailMem :
          req = [time |-> t, freq |-> f, beam |-> b, avail |-> m, done |-> FALSE]
    /\ _beam = NewLane(lane).beam
    /\ _time = NewLane(lane).time
    /\ _freq = NewLane(lane).freq
    /\ warnings = 0
    /\ raised = None
    /\ spec = NoSpec
    /\ IdxIdle /\ SpIdle /\ ExtIdle

LaneSelect ==
    /\ ~ req.done
    /\ LET o == [beam |-> _beam, time |-> _time, freq |-> _freq,
                 warnings |-> warnings, raised |-> None]
           r == select(lane, o, "i", req.time, req.freq, req.beam, req.avail)
       IN  /\ _beam' = r.o.beam
           /\ _time' = r.o.time
           /\ _freq' = r.o.freq
           /\ warnings' = r.o.warnings
           /\ raised' = r.o.raised
           /\ spec' = r.spec
    /\ req' = [req EXCEPT !.done = TRUE]
    /\ UNCHANGED <<lane, varsIdx, varsSp, varsExt>>

NextLane == LaneSelect

SpecLane == InitLane /\ [][NextLane]_vars

(***************************************************************************)
(* What the file holds, stated without the index arithmetic of the code    *)
(***************************************************************************)
StrictlyIncreasing(s) == \A i \in 1..(Len(s) - 1) : s[i] < s[i + 1]

\* time of sample k of block b
SampleTime(l, b, k) == l.TIMESTAMP + b * block_dt(l) + k * dt(l)

AllTimes(l) == {SampleTime(l, b, k) : b \in 0..(l.ntb - 1), k \in 0..(l.nffte - 1)}

\* frequency of raw fft bin j of storage channel c: the backend writes the
\* upper half of a channel first
BinFreq(l, c, j) ==
    At(l.channels, c) * FUnit + ((j + (l.fftlen \div 2)) % l.fftlen) * df(l)

AllFreqs(l, b) ==
    {BinFreq(l, c, j) : c \in {x \in 0..(Len(l.beams) - 1) : At(l.beams, x) = b},
                        j \in 0..(l.fftlen - 1)}

TimeMsg == "ValueError: Stop time < Start time"

FreqMsg == "ValueError: Max freq < Min freq"

ReqBeam == IF req.beam = NoBeam THEN At(lane.beams, 0) ELSE req.beam

BeamOk == ReqBeam \in Range(lane.beams)

TimeGiven == req.time # NoRange

FreqGiven == req.freq # NoRange

TimeInverted == TimeGiven /\ req.time[2] < req.time[1]

FreqInverted == FreqGiven /\ req.freq[2] < req.freq[1]

TimeOutside ==
    TimeGiven /\ (req.time[1] < time_min(lane) \/ req.time[2] > time_max(lane))

FreqOutside ==
    /\ FreqGiven
    /\ \/ req.freq[1] < freq_min(lane, ReqBeam)
       \/ req.freq[2] > freq_max(lane, ReqBeam)

\* the range lies wholly below or wholly above the file's bounds
TimeDisjoint ==
    TimeGiven /\ (req.time[2] < time_min(lane) \/ req.time[1] > time_max(lane))

FreqDisjoint ==
    /\ FreqGiven
    /\ \/ req.freq[2] < freq_min(lane, ReqBeam)
       \/ req.freq[1] > freq_max(lane, ReqBeam)

ClampedTime ==
    <<IF req.time[1] < time_min(lane) THEN time_min(lane) ELSE req.time[1],
      IF req.time[2] > time_max(lane) THEN time_max(lane) ELSE req.time[2]>>

ClampedFreq ==
    <<IF req.freq[1] < freq_min(lane, ReqBeam)
      THEN freq_min(lane, ReqBeam) ELSE req.freq[1],
      IF req.freq[2] > freq_max(lane, ReqBeam)
      THEN freq_max(lane, ReqBeam) ELSE req.freq[2]>>

\* the freq setter was reached: the beam and time setters did not raise
FreqReached == BeamOk /\ ~ TimeInverted /\ ~ TimeDisjoint

Returned == req.done /\ raised = None /\ spec # NoSpec

C4_InvertedFails ==
    req.done =>
        /\ (TimeInverted \/ FreqInverted) => (raised # None /\ spec = NoSpec)
        /\ (BeamOk /\ TimeInverted) => raised = TimeMsg
        /\ (FreqReached /\ FreqInverted) => raised = FreqMsg

\* C4 witness: inverted time ranges one of whose bounds was clamped before the
\* inversion test, both rejected; likewise an inverted frequency range.
C4_Witness ==
    /\ req.done /\ BeamOk
    /\ \/ /\ TimeInverted /\ req.time[1] < time_min(lane)
          /\ warnings = 1 /\ raised = TimeMsg
       \/ /\ FreqReached /\ FreqInverted /\ req.freq[2] > freq_max(lane, ReqBeam)
          /\ raised = FreqMsg

\* C5 as amended: a time or frequency range that is not inverted, lies partly
\* outside the file's bounds and still meets them (lower bound <= the file's
\* upper bound, upper bound >= the file's lower bound) is clamped to the file's
\* bounds with one warning per clamped bound and its setter raises nothing; a
\* range wholly below or wholly above the file's bounds raises the setter's
\* ValueError.
C5_ClampOverlapping ==
    req.done =>
        /\ (BeamOk /\ TimeOutside /\ ~ TimeInverted /\ ~ TimeDisjoint)
            => /\ raised # TimeMsg
               /\ _time = ClampedTime
               /\ warnings >= 1
        /\ (BeamOk /\ ~ TimeInverted /\ TimeDisjoint) => raised = TimeMsg
        /\ (FreqReached /\ FreqOutside /\ ~ FreqInverted /\ ~ FreqDisjoint)
            => /\ raised # FreqMsg
               /\ _freq = ClampedFreq
               /\ warnings >= 1
        /\ (FreqReached /\ ~ FreqInverted /\ FreqDisjoint) => raised = FreqMsg
        /\ (raised = None /\ TimeGiven /\ FreqGiven) =>
              warnings = (IF req.time[1] < time_min(lane) THEN 1 ELSE 0)
                       + (IF req.time[2] > time_max(lane) THEN 1 ELSE 0)
                       + (IF req.freq[1] < freq_min(lane, ReqBeam) THEN 1 ELSE 0)
                       + (IF req.freq[2] > freq_max(lane, ReqBeam) THEN 1 ELSE 0)

\* C5 witness: a request reaching beyond the file on both sides of both axes:
\* four warnings, both ranges clamped to the file's bounds, nothing raised.
C5_Witness ==
    /\ Returned /\ TimeGiven /\ FreqGiven
    /\ req.time[1] < time_min(lane) /\ req.time[2] > time_max(lane)
    /\ req.freq[1] < freq_min(lane, ReqBeam)
    /\ req.freq[2] > freq_max(lane, ReqBeam)
    /\ warnings = 4
    /\ _time = <<time_min(lane), time_max(lane)>>
    /\ _freq = <<freq_min(lane, ReqBeam), freq_max(lane, ReqBeam)>>

\* C5 as stated: every range that is not inverted but lies partly or wholly
\* outside the file's bounds is clamped with a warning and its setter raises
\* nothing.
C5_Original ==
    req.done =>
        /\ (BeamOk /\ TimeOutside /\ ~ TimeInverted)
            => (raised # TimeMsg /\ _time = ClampedTime /\ warnings >= 1)
        /\ (FreqReached /\ FreqOutside /\ ~ FreqInverted)
            => (raised # FreqMsg /\ _freq = ClampedFreq /\ warnings >= 1)

(***************************************************************************)
(* stokes/specdata.py: SpecData.__and__, concatenation in frequency.       *)
(* The result is [raised, spec].                                           *)
(***************************************************************************)
hstack(a, b) == [i \in 1..Len(a) |-> a[i] \o b[i]]

NoTag == "<no stokes>"        \* the meta of a SpecData built without stokes=

and_anytag(self, other) ==
    \* mutant: the Stokes parameters of the operands are not compared
    IF self.freq = <<>> \/ other.freq = <<>>
    THEN [raised |-> "ValueError: zero-size array", spec |-> NoSpec]
    ELSE IF Len(self.data) # Len(other.data)
    THEN [raised |-> "ValueError: hstack dimensions", spec |-> NoSpec]
    ELSE [raised |-> None,
          spec |-> SpecData(hstack(self.data, other.data), self.time,
                            self.freq \o other.freq, self.stokes)]

and_sorted(self, other) ==
    \* mutant: the operand holding the lower frequencies always comes first
    IF self.stokes # other.stokes
    THEN [raised |-> "ValueError: Inconsistent Stokes parameters", spec |-> NoSpec]
    ELSE IF self.freq = <<>> \/ other.freq = <<>>
    THEN [raised |-> "ValueError: zero-size array", spec |-> NoSpec]
    ELSE IF Len(self.data) # Len(other.data)
    THEN [raised |-> "ValueError: hstack dimensions", spec |-> NoSpec]
    ELSE IF SetMin(Range(self.freq)) < SetMin(Range(other.freq))
    THEN [raised |-> None,
          spec |-> SpecData(hstack(self.data, other.data), self.time,
                            self.freq \o other.freq, self.stokes)]
    ELSE [raised |-> None,
          spec |-> SpecData(hstack(other.data, self.data), self.time,
                            other.freq \o self.freq, self.stokes)]

and_(self, other) ==
    IF self.stokes # NoTag /\ other.stokes = NoTag
    THEN [raised |-> "KeyError: 'stokes'", spec |-> NoSpec]
    ELSE IF self.stokes # NoTag /\ self.stokes # other.stokes
    THEN [raised |-> "ValueError: Inconsistent Stokes parameters", spec |-> NoSpec]
    ELSE IF self.freq = <<>> \/ other.freq = <<>>
    THEN [raised |-> "ValueError: zero-size array", spec |-> NoSpec]
    ELSE IF Len(self.data) # Len(other.data)
    THEN [raised |-> "ValueError: hstack dimensions", spec |-> NoSpec]
    ELSE IF self.stokes = NoTag
    THEN [raised |-> "KeyError: 'stokes'", spec |-> NoSpec]
    ELSE IF SetMax(Range(self.freq)) < SetMin(Range(other.freq))
    THEN [raised |-> None,
          spec |-> SpecData(hstack(self.data, other.data), self.time,
                            self.freq \o other.freq, self.stokes)]
    ELSE [raised |-> None,
          spec |-> SpecData(hstack(other.data, self.data), self.time,
                            other.freq \o self.freq, self.stokes)]

(***************************************************************************)
(* read/obsrepo.py and read/spectrum.py.  An observation is the sequence   *)
(* of its lane files in the order glob() found them.  ObsRepo.desctab has  *)
(* one row per file and beam of the file; the row's frequency bounds are   *)
(* those the freshly opened Lane reports, i.e. of the file's first beam.   *)
(***************************************************************************)
RECURSIVE SortedSeq(_)
SortedSeq(S) ==
    \* np.unique: the sorted distinct values
    IF S = {} THEN <<>> ELSE <<SetMin(S)>> \o SortedSeq(S \ {SetMin(S)})

RECURSIVE desctab(_)
desctab(files) ==
    IF files = <<>> THEN <<>>
    ELSE LET l  == Head(files)
             bs == SortedSeq(Range(l.beams))
         IN  [i \in 1..Len(bs) |->
                 [lane |-> l.id, beam |-> bs[i],
                  tmin |-> time_min(l), tmax |-> time_max(l),
                  fmin |-> freq_min(l, NewLane(l).beam),
                  fmax |-> freq_max(l, NewLane(l).beam),
                  file |-> l]]
             \o desctab(Tail(files))

Absent == <<0>>         \* the keyword time= or freq= is not given

AbsentB == 0 - 2        \* the keyword beam= is not given

Column(tab, field) == {tab[i][field] : i \in 1..Len(tab)}

\* Spectrum.beam, Spectrum.time, Spectrum.freq setters on
\* s = [beam, time, freq, bmask, tmask, fmask]
sp_beam(tab, s, b) ==
    LET bb == IF b = NoBeam THEN tab[1].beam ELSE b
    IN  [s EXCEPT !.beam = bb,
                  !.bmask = [i \in 1..Len(tab) |-> tab[i].beam = bb]]

overlap_halfopen(lo, hi, r) ==
    \* mutant: a row touching the range at an end point does not overlap it
    (lo <= r[1] /\ r[1] < hi) \/ (r[1] <= lo /\ lo < r[2])

overlap(lo, hi, r) ==
    (lo <= r[1] /\ r[1] <= hi) \/ (r[1] <= lo /\ lo <= r[2])

sp_time(tab, s, t) ==
    LET tt == IF t = NoRange
              THEN <<SetMin(Column(tab, "tmin")), SetMax(Column(tab, "tmax"))>>
              ELSE t
    IN  [s EXCEPT !.time = tt,
                  !.tmask = [i \in 1..Len(tab) |->
                                overlap(tab[i].tmin, tab[i].tmax, tt)]]

sp_freq(tab, s, f) ==
    LET ff == IF f = NoRange
              THEN <<SetMin(Column(tab, "fmin")), SetMax(Column(tab, "fmax"))>>
              ELSE f
    IN  [s EXCEPT !.freq = ff,
                  !.fmask = [i \in 1..Len(tab) |->
                                overlap(tab[i].fmin, tab[i].fmax, ff)]]

\* Spectrum.__init__
NewSpectrum(files) ==
    LET tab == desctab(files)
        s0  == [beam |-> NoBeam, time |-> NoRange, freq |-> NoRange,
                bmask |-> <<>>, tmask |-> <<>>, fmask |-> <<>>]
    IN  sp_time(tab, sp_freq(tab, sp_beam(tab, s0, NoBeam), NoRange), NoRange)

\* Spectrum._parameters: only the keywords given are assigned
_parameters(tab, s, k) ==
    LET s1 == IF k.beam = AbsentB THEN s ELSE sp_beam(tab, s, k.beam)
        s2 == IF k.freq = Absent THEN s1 ELSE sp_freq(tab, s1, k.freq)
    IN  IF k.time = Absent THEN s2 ELSE sp_time(tab, s2, k.time)

mask(s) == [i \in 1..Len(s.bmask) |-> s.bmask[i] /\ s.fmask[i] /\ s.tmask[i]]

\* spec = spec & l.select(...): c is the outcome of &, ps the per-file results
joined(c, ps) == [raised |-> c.raised, spec |-> c.spec, parts |-> ps]

\* one turn of the loop of Spectrum.select: p is the outcome of the turns before,
\* r what Lane.select returned for the file of this turn
chain(p, r) ==
    IF p.raised # None THEN p
    ELSE IF r.o.raised # None
    THEN [raised |-> r.o.raised, spec |-> NoSpec, parts |-> p.parts]
    ELSE IF p.parts = <<>>
    THEN [raised |-> None, spec |-> r.spec, parts |-> <<r.spec>>]
    ELSE joined(and_(p.spec, r.spec), Append(p.parts, r.spec))

\* the loop of Spectrum.select over the selected rows' files: every file is
\* opened anew and selected from; the results are chained with &.  turn[n] is
\* the outcome after n files; a turn that raises ends the loop.
select_loop(files, s, stokes, avail) ==
    LET turn[n \in 0..Len(files)] ==
            IF n = 0 THEN [raised |-> None, spec |-> NoSpec, parts |-> <<>>]
            ELSE chain(turn[n - 1],
                       select(files[n], NewLane(files[n]), stokes,
                              s.time, s.freq, s.beam, avail))
    IN  turn[Len(files)]

\* self.desctab[mask]['file']
files_of(rows) == [i \in 1..Len(rows) |-> rows[i].file]

with_sp(s, r) == [sp |-> s, raised |-> r.raised, spec |-> r.spec, parts |-> r.parts]

\* Spectrum.select after self._parameters(**kwargs)
select_rows(tab, s, stokes, avail) ==
    IF \A i \in 1..Len(tab) : ~ mask(s)[i]
    THEN [sp |-> s, raised |-> "ValueError: Empty selection",
          spec |-> NoSpec, parts |-> <<>>]
    ELSE with_sp(s, select_loop(files_of(MaskSeq(tab, mask(s))), s, stokes, avail))

\* Spectrum.select: the result is [sp, raised, spec, parts], parts being the
\* per-file SpecData in the order they were selected
sp_select(files, s, stokes, k, avail) ==
    select_rows(desctab(files), _parameters(desctab(files), s, k), stokes, avail)

(***************************************************************************)
(* SpecSpectrum: one call of Spectrum.select on a freshly built Spectrum,  *)
(* for every discovery order of the lane files of an observation.          *)
(***************************************************************************)
LaneA == [id |-> 0, TIMESTAMP |-> 10, ntb |-> 1, nffte |-> 2, fftlen |-> 2,
          nfft2int |-> 1, beams |-> <<0>>, channels |-> <<5>>]

LaneB == [id |-> 1, TIMESTAMP |-> 10, ntb |-> 1, nffte |-> 2, fftlen |-> 2,
          nfft2int |-> 1, beams |-> <<0>>, channels |-> <<6>>]

LaneC == [id |-> 2, TIMESTAMP |-> 10, ntb |-> 1, nffte |-> 2, fftlen |-> 2,
          nfft2int |-> 1, beams |-> <<0, 1>>, channels |-> <<7, 9>>]

\* lane 1 of an observation whose lanes did not start on the same sample
LaneBLate == [LaneB EXCEPT !.TIMESTAMP = 12]

Orders(S) ==
    {q \in [1..Cardinality(S) -> S] : \A i, j \in 1..Cardinality(S) :
                                          i # j => q[i] # q[j]}

Observations ==
    Orders({LaneA, LaneB, LaneC}) \cup Orders({LaneA, LaneBLate})

ObsMem == 1000000

\* requested bounds: every sample step / channel edge from one step below the
\* observation to one step above it
TimeGrid(files) ==
    LET tab == desctab(files)
        lo  == SetMin(Column(tab, "tmin"))
        hi  == SetMax(Column(tab, "tmax"))
        d   == dt(files[1])
    IN  {t \in (lo - d)..(hi + d) : (t - lo) % d = 0}

FreqGrid(files) ==
    LET tab == desctab(files)
        lo  == SetMin(Column(tab, "fmin"))
        hi  == SetMax(Column(tab, "fmax"))
    IN  {f \in (lo - FUnit)..(hi + FUnit) : (f - lo) % FUnit = 0}

GridPairs(G) == {<<a, b>> : a \in G, b \in G} \cup {NoRange, Absent}

InitSpectrum ==
    /\ obs \in Observations
    /\ \E t \in GridPairs(TimeGrid(obs)), f \in GridPairs(FreqGrid(obs)),
          b \in {AbsentB, NoBeam, 0, 1} :
          kw = [time |-> t, freq |-> f, beam |-> b, done |-> FALSE]
    /\ sp = NewSpectrum(obs)
    /\ parts = <<>>
    /\ avg = None
    /\ raised = None
    /\ spec = NoSpec
    /\ IdxIdle /\ LaneIdle /\ ExtIdle

\* what the call leaves behind
SpectrumResult(r) ==
    /\ sp' = r.sp
    /\ raised' = r.raised
    /\ spec' = r.spec
    /\ parts' = r.parts

SpectrumSelect ==
    /\ ~ kw.done
    /\ SpectrumResult(sp_select(obs, sp, "i", kw, ObsMem))
    /\ kw' = [kw EXCEPT !.done = TRUE]
    /\ UNCHANGED <<obs, avg, varsIdx, varsLane, varsExt>>

NextSpectrum == SpectrumSelect

SpecSpectrum == InitSpectrum /\ [][NextSpectrum]_vars

LaneById(files, id) == CHOOSE l \in Range(files) : l.id = id

RECURSIVE SumLen(_)
SumLen(ps) == IF ps = <<>> THEN 0 ELSE Len(Head(ps).freq) + SumLen(Tail(ps))

SpReturned == kw.done /\ raised = None /\ spec # NoSpec

\* C6: whatever the order in which the lane files were found, the SpecData that
\* Spectrum.select returns has a strictly increasing frequency axis, as many
\* frequency bins as the per-file results together, and in every column j the
\* data recorded at frequency j.
C6_FrequencyOrdered ==
    SpReturned =>
        /\ StrictlyIncreasing(spec.freq)
        /\ Len(spec.freq) = SumLen(parts)
        /\ shape_ok(spec.data, spec.time, spec.freq)
        /\ \A i \in 1..Len(spec.data), j \in 1..Len(spec.freq) :
              LET cell == spec.data[i][j]
              IN  BinFreq(LaneById(obs, cell[1]), cell[4], cell[5]) = spec.freq[j]

\* C7: for a query with t0 < t1 and f0 < f1, a row of the metadata table is
\* selected exactly when its beam is the selected beam and its half-open time and
\* frequency intervals [tmin, tmax), [fmin, fmax) intersect the half-open query
\* ranges (a row touching the query only at an end point is not selected).
C7_HalfOpenOverlap ==
    (kw.done /\ sp.time[1] < sp.time[2] /\ sp.freq[1] < sp.freq[2]) =>
        \A i \in 1..Len(desctab(obs)) :
            LET row == desctab(obs)[i]
            IN  mask(sp)[i] <=>
                    /\ row.beam = sp.beam
                    /\ row.tmin < sp.time[2] /\ sp.time[1] < row.tmax
                    /\ row.fmin < sp.freq[2] /\ sp.freq[1] < row.fmax

\* C10: when two of the per-file results that Spectrum.select combines do not
\* have the same time axis, the call raises and returns no SpecData.
C10_TimeAxesChecked ==
    (kw.done /\ \E i, j \in 1..Len(parts) : parts[i].time # parts[j].time)
        => (raised # None /\ spec = NoSpec)

(***************************************************************************)
(* Spectrum.average.  The loop is followed step by step: avg is the frame  *)
(* of the call, [pc, beam, freq, start, stop, dt, df, ntimes, nfreqs, i,   *)
(* avg_data, avg_time, avg_freq, start0, slabs].  A reduced cell is the    *)
(* record [sum, over]: the raw samples added up and the number the sum is  *)
(* divided by; a reduced frequency is [sum, over] likewise.  Mid times are *)
(* kept in half ticks (twice the time), so that start + dt/2 is exact.     *)
(* slabs is the history of the rows written: [t0, t1, row].                *)
(***************************************************************************)
\* int(np.ceil(a / b)) for b # 0
ceil_div(a, b) ==
    IF b > 0 THEN 0 - ((0 - a) \div b) ELSE 0 - (a \div (0 - b))

\* int(a / b) for b # 0: truncation towards zero
int_div(a, b) ==
    LET n == IF b > 0 THEN a ELSE 0 - a
        d == IF b > 0 THEN b ELSE 0 - b
    IN  IF n >= 0 THEN n \div d ELSE 0 - ((0 - n) \div d)

Zero == [sum |-> {}, over |-> 1]          \* a cell of np.zeros

ZeroF == [sum |-> 0, over |-> 1]          \* an entry of np.zeros(nfreqs)

\* SpecData.tmean() of a SpecData with at least one row
tmean(s) ==
    LET n == Len(s.time)
    IN  SpecData(<<[j \in 1..Len(s.freq) |->
                        [sum |-> {s.data[i][j] : i \in 1..n}, over |-> n]]>>,
                 <<s.time[1] + s.time[n]>>,
                 s.freq, s.stokes)

RECURSIVE SumOver(_, _)
SumOver(f, S) ==
    IF S = {} THEN 0
    ELSE LET x == CHOOSE y \in S : TRUE IN f[x] + SumOver(f, S \ {x})

\* SpecData.frebin(bins) of a one-row SpecData: np.linspace(0, size, bins + 1)
\* truncated to integers gives the slices, np.add.reduceat adds up each slice
\* (the single element at its start when the slice is empty)
frebin(s, bins) ==
    LET nf       == Len(s.freq)
        slices   == [k \in 0..bins |-> IF bins = 0 THEN 0 ELSE (k * nf) \div bins]
        counts   == [k \in 0..(bins - 1) |-> slices[k + 1] - slices[k]]
        group(k) == IF counts[k] > 0 THEN (slices[k] + 1)..slices[k + 1]
                    ELSE {slices[k] + 1}
    IN  SpecData(<<[k \in 1..bins |->
                        [sum  |-> UNION {s.data[1][p].sum : p \in group(k - 1)},
                         over |-> s.data[1][SetMin(group(k - 1))].over
                                      * counts[k - 1]]]>>,
                 s.time,
                 [k \in 1..bins |->
                        [sum  |-> SumOver(s.freq, group(k - 1)),
                         over |-> counts[k - 1]]],
                 s.stokes)

loop_cond_upto(start, stop, d) ==
    \* mutant: the loop runs as long as the slab starts inside the range
    start <= stop

\* while start < stop - dt
loop_cond(start, stop, d) == start < stop - d

\* start += dt
advance(start, d) == start + d

NoAvg == [pc |-> "idle"]

\* the preallocation of the output arrays, s being the Spectrum after
\* self._parameters(**kwargs)
allocate(s, k) ==
    LET start  == s.time[1]
        stop   == s.time[2]
        frame  == [pc |-> "loop", beam |-> s.beam, freq |-> s.freq,
                   start |-> start, stop |-> stop, dt |-> k.dt, df |-> k.df,
                   ntimes |-> 0, nfreqs |-> 0, i |-> 0,
                   avg_data |-> <<>>, avg_time |-> <<>>, avg_freq |-> <<>>,
                   start0 |-> start, slabs |-> <<>>]
    IN  IF k.dt = 0 \/ k.df = 0
        THEN [sp |-> s, raised |-> "OverflowError: cannot convert float infinity to integer",
              avg |-> [frame EXCEPT !.pc = "raised"]]
        ELSE LET ntimes == ceil_div(stop - start, k.dt)
                 nfreqs == int_div(s.freq[2] - s.freq[1], k.df)
             IN  IF ntimes < 0 \/ nfreqs < 0
                 THEN [sp |-> s, raised |-> "ValueError: negative dimensions are not allowed",
                       avg |-> [frame EXCEPT !.pc = "raised"]]
                 ELSE [sp |-> s, raised |-> None,
                       avg |-> [frame EXCEPT
                                   !.ntimes = ntimes, !.nfreqs = nfreqs,
                                   !.avg_data = [r \in 1..ntimes |->
                                                    [c \in 1..nfreqs |-> Zero]],
                                   !.avg_time = [r \in 1..ntimes |-> 0],
                                   !.avg_freq = [c \in 1..nfreqs |-> ZeroF]]]

\* Spectrum.average up to the loop
average_enter(files, s, k) == allocate(_parameters(desctab(files), s, k), k)

\* avg_data[i, :] = tmp_spec.amp and the four assignments after it
store(a, s, tmp) ==
    IF a.i >= a.ntimes
    THEN [sp |-> s, raised |-> "IndexError: index out of bounds",
          avg |-> [a EXCEPT !.pc = "raised"]]
    ELSE [sp |-> s, raised |-> None,
          avg |-> [a EXCEPT
                      !.avg_data[a.i + 1] = tmp.data[1],
                      !.avg_time[a.i + 1] = 2 * a.start + a.dt,
                      !.avg_freq = tmp.freq,
                      !.slabs = Append(@, [t0 |-> a.start,
                                           t1 |-> a.start + a.dt,
                                           row |-> a.i]),
                      !.i = a.i + 1,
                      !.start = advance(a.start, a.dt)]]

\* the rest of a turn of the loop, r being what self.select returned
reduce(a, r) ==
    IF r.raised # None
    THEN [sp |-> r.sp, raised |-> r.raised, avg |-> [a EXCEPT !.pc = "raised"]]
    ELSE store(a, r.sp,
               frebin(tmean(r.spec), int_div(a.freq[2] - a.freq[1], a.df)))

\* one turn of the loop: select the slab, average it, store it in row i
average_step(files, s, a, stokes, avail) ==
    reduce(a, sp_select(files, s, stokes,
                        [time |-> <<a.start, a.start + a.dt>>,
                         freq |-> a.freq, beam |-> a.beam], avail))

\* after the loop: the SpecData built from the output arrays
average_return(a, stokes) ==
    IF ~ shape_ok(a.avg_data, a.avg_time, a.avg_freq)
    THEN [raised |-> "AssertionError", spec |-> NoSpec]
    ELSE [raised |-> None,
          spec |-> SpecData(a.avg_data, a.avg_time, a.avg_freq, stokes)]

(***************************************************************************)
(* SpecAverage: one call of Spectrum.average on a freshly built Spectrum.  *)
(***************************************************************************)
LaneLong == [id |-> 0, TIMESTAMP |-> 10, ntb |-> 3, nffte |-> 2, fftlen |-> 2,
             nfft2int |-> 1, beams |-> <<0>>, channels |-> <<5>>]

LaneLongUp == [LaneLong EXCEPT !.id = 1, !.channels = <<6>>]

AvgObservations == {<<LaneLong>>, <<LaneLong, LaneLongUp>>}

\* time=: not given, the whole observation, a part of it, an empty range, an
\* inverted range, a range reaching over both ends
AvgTimes(files) ==
    LET lo == time_min(files[1])
        hi == time_max(files[1])
    IN  {Absent, <<lo, hi>>, <<lo, hi - block_dt(files[1])>>,
         <<lo, lo>>, <<hi, lo>>, <<lo - dt(files[1]), hi + dt(files[1])>>}

\* dt= in ticks: negative, zero, the sample step, multiples of it, a step that
\* does not divide the range, a step longer than the file
AvgSteps == {0 - 2, 0, 2, 4, 5, 8, 16}

\* df= in frequency units: the bin width, the channel width
AvgWidths == {2, 4}

InitAverage ==
    /\ obs \in AvgObservations
    /\ \E t \in AvgTimes(obs), d \in AvgSteps, w \in AvgWidths :
          kw = [time |-> t, freq |-> Absent, beam |-> AbsentB,
                dt |-> d, df |-> w, done |-> FALSE]
    /\ sp = NewSpectrum(obs)
    /\ avg = [NoAvg EXCEPT !.pc = "call"]
    /\ parts = <<>>
    /\ raised = None
    /\ spec = NoSpec
    /\ IdxIdle /\ LaneIdle /\ ExtIdle

\* what a step of the call leaves behind
AverageResult(r) ==
    /\ sp' = r.sp
    /\ raised' = r.raised
    /\ avg' = r.avg

AverageEnter ==
    /\ avg.pc = "call"
    /\ AverageResult(average_enter(obs, sp, kw))
    /\ kw' = [kw EXCEPT !.done = (avg'.pc = "raised")]
    /\ UNCHANGED <<obs, parts, spec, varsIdx, varsLane, varsExt>>

AverageStep ==
    /\ avg.pc = "loop"
    /\ loop_cond(avg.start, avg.stop, avg.dt)
    /\ AverageResult(average_step(obs, sp, avg, "i", ObsMem))
    /\ kw' = [kw EXCEPT !.done = (avg'.pc = "raised")]
    /\ UNCHANGED <<obs, parts, spec, varsIdx, varsLane, varsExt>>

AverageReturn ==
    /\ avg.pc = "loop"
    /\ ~ loop_cond(avg.start, avg.stop, avg.dt)
    /\ LET r == average_return(avg, "i")
       IN  /\ raised' = r.raised
           /\ spec' = r.spec
           /\ avg' = [avg EXCEPT !.pc = IF r.raised = None THEN "done"
                                        ELSE "raised"]
    /\ kw' = [kw EXCEPT !.done = TRUE]
    /\ UNCHANGED <<obs, sp, parts, varsIdx, varsLane, varsExt>>

NextAverage == AverageEnter \/ AverageStep \/ AverageReturn

SpecAverage == InitAverage /\ [][NextAverage]_vars

\* the mean of the raw samples of slab i (0-based), rebinned: what row i of
\* the result has to hold
SlabReduction(i) ==
    LET r == sp_select(obs, sp, "i",
                       [time |-> <<avg.start0 + i * avg.dt,
                                   avg.start0 + (i + 1) * avg.dt>>,
                        freq |-> avg.freq, beam |-> avg.beam], ObsMem)
    IN  IF r.raised # None THEN <<>>
        ELSE frebin(tmean(r.spec), avg.nfreqs).data[1]

\* C8: the array Spectrum.average returns for a range of duration D > 0 and
\* bandwidth B with steps dt > 0 and df > 0 has ceil(D/dt) rows and floor(B/df)
\* columns, and every row i holds the time mean, rebinned in frequency, of the
\* raw data of slab i: no row is left as it was allocated.
C8_EveryRowAveraged ==
    (avg.pc = "done" /\ avg.dt > 0 /\ avg.stop > avg.start0) =>
        /\ Len(spec.data) = ceil_div(avg.stop - avg.start0, avg.dt)
        /\ \A i \in 1..Len(spec.data) :
              /\ Len(spec.data[i]) = int_div(avg.freq[2] - avg.freq[1], avg.df)
              /\ spec.data[i] = SlabReduction(i - 1)

C9_Safe ==
    avg.pc \in {"loop", "done", "raised"} =>
        /\ avg.ntimes > 0 => avg.i < avg.ntimes
        /\ Len(avg.slabs) = avg.i
        /\ \A n \in 1..Len(avg.slabs) :
              /\ avg.slabs[n].row = n - 1
              /\ avg.slabs[n].row < avg.ntimes
              /\ avg.slabs[n].t0 = avg.start0 + (n - 1) * avg.dt
              /\ avg.slabs[n].t1 = avg.start0 + n * avg.dt
        /\ \A n \in 1..(Len(avg.slabs) - 1) :
              avg.slabs[n].t0 < avg.slabs[n + 1].t0

\* a turn of the loop that comes back to the loop head has moved the start of
\* the slab forward by dt > 0 towards a stop that does not move
C9_Progress ==
    (avg.pc = "loop" /\ avg'.pc = "loop") =>
        /\ avg.dt > 0
        /\ avg.start < avg.stop - avg.dt
        /\ avg'.start = avg.start + avg.dt
        /\ avg'.stop = avg.stop /\ avg'.dt = avg.dt
        /\ avg'.i = avg.i + 1

\* C9: the loop of Spectrum.average takes the slabs in strictly increasing time
\* order, slab number i covers [start + i*dt, start + (i+1)*dt] and is written at
\* row i, the row index stays below the number of rows allocated, and the loop
\* terminates: every turn that does not raise brings start closer by dt > 0 to
\* the fixed bound stop - dt that ends the loop.
C9_OrderedSlabs == [][C9_Safe' /\ C9_Progress]_vars

\* C9 witness: a call that returned after writing three slabs or more.
C9_Witness ==
    /\ avg.pc = "done"
    /\ Len(avg.slabs) >= 3
    /\ avg.slabs[3].row = 2
    /\ avg.slabs[3].t0 = avg.start0 + 2 * avg.dt

(***************************************************************************)
(* stokes/specdata.py: the operations on SpecData.  Values are kept as     *)
(* terms: Sample(k) is the raw value named k, a reduced value is the       *)
(* record [sum, over] of tmean and frebin, the result of a op b is         *)
(* Arith(op, a, b).  shape is what .shape says of an array that need not   *)
(* be 2-D.  The result of an operation is [raised, spec].                  *)
(***************************************************************************)
Sample(k) == [sum |-> {}, over |-> k]

Arith(op, a, b) ==
    [sum  |-> {[sum |-> {a}, over |-> 1], [sum |-> {b}, over |-> 2]},
     over |-> CASE op = "+" -> 1 [] op = "-" -> 2 [] op = "*" -> 3 [] OTHER -> 4]

Failed(what) == [raised |-> what, spec |-> NoSpec]

\* SpecData(data=..., time=..., freq=..., stokes=...) on an array of any
\* dimension: ts, fs = d.shape, then the two assertions of the data setter
new_SpecData(shape, data, time, freq, stokes) ==
    IF Len(shape) # 2
    THEN Failed("ValueError: values to unpack")
    ELSE IF ~ shape_ok(data, time, freq)
    THEN Failed("AssertionError: axis inconsistent")
    ELSE [raised |-> None, spec |-> SpecData(data, time, freq, stokes)]

n_rows(x) == Len(x.data)

n_cols(x) == IF x.data = <<>> THEN 0 ELSE Len(x.data[1])

\* SpecData.amp: self.data.squeeze() drops the axes of length one
amp_shape(x) == SelectSeq(<<n_rows(x), n_cols(x)>>, LAMBDA d : d # 1)

\* if a != b: on two arrays: an array of more than one element has no truth
\* value
ne_raises(a, b) == Len(a) > 1 \/ Len(b) > 1

vstack(a, b) == a \o b

\* SpecData.__or__
or_(self, other) ==
    IF self.stokes # NoTag /\ other.stokes = NoTag
    THEN Failed("KeyError: 'stokes'")
    ELSE IF self.stokes # NoTag /\ self.stokes # other.stokes
    THEN Failed("ValueError: Inconsistent Stokes parameters")
    ELSE IF self.time = <<>> \/ other.time = <<>>
    THEN Failed("ValueError: zero-size array")
    ELSE IF n_cols(self) # n_cols(other)
    THEN Failed("ValueError: vstack dimensions")
    ELSE IF self.stokes = NoTag
    THEN Failed("KeyError: 'stokes'")
    ELSE IF SetMax(Range(self.time)) < SetMin(Range(other.time))
    THEN new_SpecData(<<n_rows(self) + n_rows(other), n_cols(self)>>,
                      vstack(self.data, other.data),
                      self.time \o other.time, self.freq, self.stokes)
    ELSE new_SpecData(<<n_rows(self) + n_rows(other), n_cols(self)>>,
                      vstack(other.data, self.data),
                      self.time \o other.time, self.freq, self.stokes)

\* SpecData._check_conformity: the error raised, None if none is
_check_conformity(self, other) ==
    IF self.stokes = NoTag \/ other.stokes = NoTag THEN "KeyError: 'stokes'"
    ELSE IF self.stokes # other.stokes THEN "ValueError: Different Stokes parameters"
    ELSE IF amp_shape(self) # amp_shape(other)
    THEN "ValueError: SpecData objects do not have the same dimensions"
    ELSE IF ne_raises(self.time, other.time)
    THEN "ValueError: The truth value of an array is ambiguous"
    ELSE IF self.time # other.time THEN "ValueError: Not the same times"
    ELSE IF ne_raises(self.freq, other.freq)
    THEN "ValueError: The truth value of an array is ambiguous"
    ELSE IF self.freq # other.freq THEN "ValueError: Not the same frequencies"
    ELSE None

\* SpecData.__add__, __sub__, __mul__, __truediv__ with a SpecData
arith(op, self, other) ==
    IF _check_conformity(self, other) # None
    THEN Failed(_check_conformity(self, other))
    ELSE new_SpecData(amp_shape(self),
                      [i \in 1..n_rows(self) |-> [j \in 1..n_cols(self) |->
                          Arith(op, self.data[i][j], other.data[i][j])]],
                      self.time, self.freq, self.stokes)

\* the same with a number: _check_value lets int and float pass
arith_scalar(op, self, k) ==
    IF self.stokes = NoTag THEN Failed("KeyError: 'stokes'")
    ELSE new_SpecData(amp_shape(self),
                      [i \in 1..n_rows(self) |-> [j \in 1..n_cols(self) |->
                          Arith(op, self.data[i][j], Sample(k))]],
                      self.time, self.freq, self.stokes)

\* x.tmean() as a call
tmean_call(x) ==
    IF x.time = <<>> THEN Failed("IndexError: index out of bounds")
    ELSE IF x.stokes = NoTag THEN Failed("KeyError: 'stokes'")
    ELSE new_SpecData(<<1, n_cols(x)>>, tmean(x).data, tmean(x).time,
                      tmean(x).freq, x.stokes)

\* x.frebin(bins) as a call, bins >= 1: np.add.reduceat runs along the first
\* axis of self.amp, which is the frequency axis only if there is one row
frebin_call(x, bins) ==
    IF n_rows(x) = 1 /\ n_cols(x) = 1
    THEN Failed("TypeError: cannot reduce on a scalar")
    ELSE IF n_rows(x) > 1 /\ n_cols(x) > 1
    THEN Failed("ValueError: reduceat along the time axis")
    ELSE IF x.stokes = NoTag THEN Failed("KeyError: 'stokes'")
    ELSE IF n_rows(x) = 1
    THEN new_SpecData(<<1, bins>>, frebin(x, bins).data, x.time,
                      frebin(x, bins).freq, x.stokes)
    ELSE new_SpecData(<<1, bins>>,
                      <<[k \in 1..bins |->
                           IF k < bins
                           THEN [sum |-> {x.data[1][1]}, over |-> 0]
                           ELSE [sum |-> {x.data[i][1] : i \in 1..n_rows(x)},
                                 over |-> 1]]>>,
                      x.time,
                      [k \in 1..bins |->
                           [sum |-> x.freq[1], over |-> IF k < bins THEN 0 ELSE 1]],
                      x.stokes)

(***************************************************************************)
(* SpecOps: a SpecData x and up to MaxOps operations applied in turn, the  *)
(* result of one being the left operand of the next; an operation that     *)
(* raises leaves x as it was.  ops remembers the last operation: its left  *)
(* operand self, its right operand other (NoSpec for a number or none),    *)
(* its number k, and whether the frequency axis of x is as selected        *)
(* (plain).  A rebinned frequency axis is a sequence of exact              *)
(* fractions [sum, over]; the operations that order or compare frequencies *)
(* are applied to the axes that are not rebinned.                          *)
(***************************************************************************)
MaxOps == 2

Mk(id, times, freqs, tag) ==
    SpecData([i \in 1..Len(times) |-> [j \in 1..Len(freqs) |->
                  Sample(100 * id + 10 * i + j)]], times, freqs, tag)

Operands ==
    { Mk(1, <<10, 12>>, <<20, 22>>, "i"),     \* A
      Mk(2, <<10, 12>>, <<24, 26>>, "i"),     \* other channels, same times
      Mk(3, <<14, 16>>, <<20, 22>>, "i"),     \* later times, same channels
      Mk(4, <<10, 12>>, <<20, 22>>, "i"),     \* the axes of A
      Mk(5, <<10, 12>>, <<20, 22>>, "q"),     \* the axes of A, another tag
      Mk(6, <<10, 12>>, <<20, 22>>, NoTag),   \* built without stokes=
      Mk(7, <<10>>, <<20, 22>>, "i"),         \* one row
      Mk(8, <<10>>, <<20>>, "i"),             \* one row, one column
      Mk(9, <<10, 12>>, <<20>>, "i") }        \* one column

ArithOps == {"+", "-", "*", "/"}

Scalars == {0, 2}

Bins == 1..3

NoOps == [x |-> NoSpec, self |-> NoSpec, other |-> NoSpec, k |-> 0,
          op |-> "idle", n |-> 0, plain |-> TRUE]

InitOps ==
    /\ IdxIdle /\ LaneIdle /\ SpIdle
    /\ StkIdle /\ LselIdle /\ CallsIdle /\ FileIdle
    /\ \E a \in Operands : ops = [NoOps EXCEPT !.x = a, !.op = "new"]
    /\ raised = None
    /\ spec = NoSpec

OpsResult(r, name, y, num) ==
    /\ raised' = r.raised
    /\ spec' = r.spec
    /\ ops' = [x     |-> IF r.raised = None THEN r.spec ELSE ops.x,
               self  |-> ops.x,
               other |-> y,
               k     |-> num,
               op    |-> name,
               n     |-> ops.n + 1,
               plain |-> ops.plain /\ ~ (name = "frebin" /\ r.raised = None)]
    /\ UNCHANGED <<varsIdx, varsLane, varsSp, stk, lsel, calls, file>>

OpsAnd ==
    /\ ops.n < MaxOps /\ ops.plain
    /\ \E y \in Operands : OpsResult(and_(ops.x, y), "&", y, 0)

OpsOr ==
    /\ ops.n < MaxOps /\ ops.plain
    /\ \E y \in Operands : OpsResult(or_(ops.x, y), "|", y, 0)

OpsArith ==
    /\ ops.n < MaxOps /\ ops.plain
    /\ \E o \in ArithOps, y \in Operands : OpsResult(arith(o, ops.x, y), o, y, 0)

OpsSelf ==
    \* x op x: the very same object on both sides
    /\ ops.n < MaxOps
    /\ \E o \in ArithOps : OpsResult(arith(o, ops.x, ops.x), o, ops.x, 0)

OpsScalar ==
    /\ ops.n < MaxOps
    /\ \E o \in ArithOps, c \in Scalars :
           OpsResult(arith_scalar(o, ops.x, c), o, NoSpec, c)

OpsTmean ==
    /\ ops.n < MaxOps
    /\ OpsResult(tmean_call(ops.x), "tmean", NoSpec, 0)

OpsFrebin ==
    /\ ops.n < MaxOps /\ ops.plain
    /\ \E b \in Bins : OpsResult(frebin_call(ops.x, b), "frebin", NoSpec, b)

NextOps ==
    \/ OpsAnd
    \/ OpsOr
    \/ OpsArith
    \/ OpsSelf
    \/ OpsScalar
    \/ OpsTmean
    \/ OpsFrebin

SpecOps == InitOps /\ [][NextOps]_vars

Concatenated == ops.op \in {"&", "|"}

\* C11: a concatenation, along frequency (&) or along time (|), of two
\* SpecData whose Stokes tags differ raises and gives no SpecData.
C11_TagMismatchRaises ==
    (Concatenated /\ ops.self.stokes # ops.other.stokes)
        => (raised # None /\ spec = NoSpec /\ ops.x = ops.self)

\* both operators have been applied to operands that differ in nothing but
\* the tag, and raised
C11_Witness ==
    /\ Concatenated
    /\ ops.self.stokes = "i" /\ ops.other.stokes = "q"
    /\ ops.self.time = ops.other.time /\ ops.self.freq = ops.other.freq
    /\ raised = "ValueError: Inconsistent Stokes parameters"

Shaped(s) ==
    /\ Len(s.data) = Len(s.time)
    /\ \A i \in 1..Len(s.data) : Len(s.data[i]) = Len(s.freq)

\* C16: every SpecData there is, the operand a chain of operations started
\* from, the left operand of each operation and each result, has as many
\* data rows as times and as many data columns as frequencies.
C16_ShapeInvariant ==
    /\ Shaped(ops.x)
    /\ Shaped(ops.self)
    /\ raised = None => Shaped(spec)

\* a result of two or more operations, the last one a rebinning to three
\* channels
C16_Witness ==
    /\ ops.n >= 2 /\ ops.op = "frebin" /\ ops.k = 3
    /\ raised = None
    /\ Len(spec.time) = 1 /\ Len(spec.freq) = 3 /\ Len(spec.data[1]) = 3

IsSpecData(o) == o.stokes # None

Elementwise == ops.op \in ArithOps /\ IsSpecData(ops.other)

\* C17: an elementwise operation between two SpecData of identical tag,
\* identical shape and the same axes returns the elementwise result.
C17_ConformantSucceeds ==
    (/\ Elementwise
     /\ ops.self.stokes # NoTag
     /\ ops.self.stokes = ops.other.stokes
     /\ n_rows(ops.self) = n_rows(ops.other)
     /\ n_cols(ops.self) = n_cols(ops.other)
     /\ ops.self.time = ops.other.time
     /\ ops.self.freq = ops.other.freq)
        => /\ raised = None
           /\ spec = SpecData([i \in 1..n_rows(ops.self) |->
                                  [j \in 1..n_cols(ops.self) |->
                                      Arith(ops.op, ops.self.data[i][j],
                                            ops.other.data[i][j])]],
                              ops.self.time, ops.self.freq, ops.self.stokes)

\* the other half of C17: an elementwise operation between two SpecData of
\* different tags or different shapes raises.
C17_MismatchFails ==
    (/\ Elementwise
     /\ \/ ops.self.stokes # ops.other.stokes
        \/ n_rows(ops.self) # n_rows(ops.other)
        \/ n_cols(ops.self) # n_cols(ops.other))
        => (raised # None /\ spec = NoSpec)

\* what the code does instead: no elementwise operation between two
\* SpecData returns
C17_NeverReturns == Elementwise => (raised # None /\ spec = NoSpec)

(***************************************************************************)
(* stokes/stokes.py: NenuStokes and the Stokes_I .. CrossYY classes.  An   *)
(* array is [shape, flat], flat being its elements in C order (flat[k + 1] *)
(* is element k), so that a reshape keeps flat and changes shape.  The raw *)
(* data are a pattern d: fft0(d, ...) and fft1(d, ...) are the two         *)
(* polarisation pairs of block b, channel c, sample s, bin j.  An element  *)
(* of the array NenuStokes returns is [val, bp]: the value the bandpass    *)
(* correction bp was applied to.                                           *)
(***************************************************************************)
Lower(s) ==
    \* str.lower()
    CASE s \in {"I", "i"} -> "i"
      [] s \in {"Q", "q"} -> "q"
      [] s \in {"U", "u"} -> "u"
      [] s \in {"V", "v"} -> "v"
      [] s \in {"XX", "Xx", "xX", "xx"} -> "xx"
      [] s \in {"YY", "Yy", "yY", "yy"} -> "yy"
      [] s \in {"Z", "z"} -> "z"
      [] s \in {"FRACV", "FracV", "fracv"} -> "fracv"
      [] s \in {"ARGXY", "ArgXY", "argxy"} -> "argxy"
      [] s \in {"PHASEXY", "PhaseXY", "phasexy"} -> "phasexy"
      [] s \in {"II", "ii"} -> "ii"
      [] OTHER -> s

allowed_stokes_wide ==
    \* mutant: one more name is let through by the setter
    {"i", "q", "u", "v", "fracv", "xx", "yy", "argxy", "phasexy", "z"}

allowed_stokes ==
    {"i", "q", "u", "v", "fracv", "xx", "yy", "argxy", "phasexy"}

\* the values self.stokes is compared with by the if/elif chain of
\* NenuStokes.__getitem__, in its order
getitem_chain ==
    <<"i", "q", "u", "v", "fracv", "xx", "yy", "argxy", "phasexy">>

Unbound == "UnboundLocalError: local variable 'data' referenced before assignment"

\* the place of a bin in the file: distinct for distinct (b, c, s, j)
pos(g, b, c, s, j) == ((b * g.nfb + c) * g.nffte + s) * g.fftlen + j

fft0(d, g, b, c, s, j) ==
    CASE d = 1 -> <<1, 1>>
      [] d = 2 -> <<3, 1>>
      [] OTHER -> <<pos(g, b, c, s, j), 1 + s + j>>

fft1(d, g, b, c, s, j) ==
    CASE d = 1 -> <<0, 0>>
      [] d = 2 -> <<2, 0 - 1>>
      [] OTHER -> <<j - c, pos(g, b, c, s, j)>>

Stokes_sum(x0, x1) ==
    \* mutant: the sum of the two polarisations
    x0[1] + x0[2]

Stokes_I(x0, x1) == x0[1] + x0[2]

Stokes_Q(x0, x1) == x0[1] - x0[2]

Stokes_U(x0, x1) == x1[1] * 2

Stokes_V(x0, x1) == x1[2] * (0 - 2)

CrossXX(x0, x1) == x0[1] * 2

CrossYY(x0, x1) == x0[2] * 2

idx4(shape, i0, i1, i2, i3) ==
    ((i0 * shape[2] + i1) * shape[3] + i2) * shape[4] + i3

\* the coordinates of flat element k of a 4-D array
at4(shape, k) ==
    <<k \div (shape[2] * shape[3] * shape[4]),
      (k \div (shape[3] * shape[4])) % shape[2],
      (k \div shape[4]) % shape[3],
      k % shape[4]>>

NoArray == [shape |-> <<>>, flat |-> <<>>]

\* the data the if/elif chain assigns, over all blocks and channels; no
\* branch assigns it for a kind that is not in the chain.  The quotient of
\* fracv and the modulus and angle of argxy and phasexy are kept as the
\* pair they are taken of
selection(kind, d, g) ==
    IF \A n \in 1..Len(getitem_chain) : getitem_chain[n] # kind
    THEN NoArray
    ELSE
    [shape |-> <<g.ntb, g.nfb, g.nffte, g.fftlen>>,
     flat  |-> [k \in 1..(g.ntb * g.nfb * g.nffte * g.fftlen) |->
                   LET i  == at4(<<g.ntb, g.nfb, g.nffte, g.fftlen>>, k - 1)
                       x0 == fft0(d, g, i[1], i[2], i[3], i[4])
                       x1 == fft1(d, g, i[1], i[2], i[3], i[4])
                   IN  CASE kind = "i"  -> Stokes_I(x0, x1)
                         [] kind = "q"  -> Stokes_Q(x0, x1)
                         [] kind = "u"  -> Stokes_U(x0, x1)
                         [] kind = "v"  -> Stokes_V(x0, x1)
                         [] kind = "fracv" ->
                                <<"v/i", Stokes_V(x0, x1), Stokes_I(x0, x1)>>
                         [] kind = "xx" -> CrossXX(x0, x1)
                         [] kind = "yy" -> CrossYY(x0, x1)
                         [] kind = "argxy" ->
                                <<"abs", Stokes_U(x0, x1), Stokes_V(x0, x1)>>
                         [] kind = "phasexy" ->
                                <<"angle", Stokes_U(x0, x1), Stokes_V(x0, x1)>>]]

\* np.swapaxes(data, 1, 2) of a 4-D array
swapaxes12(a) ==
    LET sh == <<a.shape[1], a.shape[3], a.shape[2], a.shape[4]>>
    IN  [shape |-> sh,
         flat  |-> [k \in 1..Len(a.flat) |->
                       LET i == at4(sh, k - 1)
                       IN  a.flat[idx4(a.shape, i[1], i[3], i[2], i[4]) + 1]]]

reshape(a, shape) == [shape |-> shape, flat |-> a.flat]

keep_halves(a) ==
    \* mutant: the halves of a beamlet stay where they are
    a

\* data[:, :, ::-1, :] of a 4-D array
invert_halves(a) ==
    [shape |-> a.shape,
     flat  |-> [k \in 1..Len(a.flat) |->
                   LET i == at4(a.shape, k - 1)
                   IN  a.flat[idx4(a.shape, i[1], i[2],
                                   a.shape[3] - 1 - i[3], i[4]) + 1]]]

BandpassModes == {"none", "kaiser", "median", "fft"}

bandpass_kaiser(a, mode, fftlen) ==
    \* mutant: the precomputed correction whatever the mode
    [raised |-> None,
     out    |-> [shape |-> a.shape,
                 flat  |-> [k \in 1..Len(a.flat) |->
                               [val |-> a.flat[k], bp |-> "kaiser"]]]]

\* the bandpass stage of NenuStokes.correct on the 2-D array a; the mode is
\* "none" for a false bp_corr, "kaiser" for True.  compute_bandpass needs
\* fftlen // 16 >= 1: np.fft.fft(kaiser, 0) raises
bandpass_stage(a, mode, fftlen) ==
    IF mode = "kaiser" /\ fftlen \div 16 = 0
    THEN [raised |-> "ValueError: Invalid number of FFT data points (0)",
          out |-> NoArray]
    ELSE [raised |-> None,
          out    |-> [shape |-> a.shape,
                      flat  |-> [k \in 1..Len(a.flat) |->
                                    [val |-> a.flat[k], bp |-> mode]]]]

\* NenuStokes.correct
stokes_correct(data, g, mode) ==
    IF g.fftlen % 2 # 0
    THEN [raised |-> "ValueError: Problem with fftlen value!", out |-> NoArray]
    ELSE bandpass_stage(
             reshape(invert_halves(
                         reshape(swapaxes12(data),
                                 <<g.ntb * g.nffte,
                                   (g.nfb * g.fftlen) \div g.fftlen,
                                   2, g.fftlen \div 2>>)),
                     <<g.ntb * g.nffte, g.nfb * g.fftlen>>),
             mode, g.fftlen)

(***************************************************************************)
(* SpecStokes: NenuStokes(data, stokes, nffte, fftlen, bp_corr) is built   *)
(* and then indexed with [0:ntb, 0:nfb], for every geometry, data pattern, *)
(* spelling of the Stokes name and bandpass mode below.                    *)
(***************************************************************************)
MaxBlocks == 2

MaxFFTe == 2

FftLens == {1, 2, 3, 4, 16}

Patterns == 1..3

StokesNames ==
    {"I", "i", "Q", "q", "U", "u", "V", "v", "XX", "Xx", "xx", "YY", "yY", "yy", "Z"}

InitStokes ==
    /\ IdxIdle /\ LaneIdle /\ SpIdle
    /\ OpsIdle /\ LselIdle /\ CallsIdle /\ FileIdle
    /\ raised = None /\ spec = NoSpec
    /\ \E ntb \in 1..MaxBlocks, nfb \in 1..MaxBlocks, nffte \in 1..MaxFFTe,
          fftlen \in FftLens, d \in Patterns, name \in StokesNames,
          mode \in BandpassModes :
          stk = [pc |-> "new",
                 g |-> [ntb |-> ntb, nfb |-> nfb, nffte |-> nffte,
                        fftlen |-> fftlen],
                 data |-> d, name |-> name, stokes |-> "", bp_corr |-> mode,
                 sel |-> NoArray, out |-> NoArray]

\* NenuStokes.__init__: the stokes setter
StokesNew ==
    /\ stk.pc = "new"
    /\ IF Lower(stk.name) \in allowed_stokes
       THEN /\ stk' = [stk EXCEPT !.pc = "built", !.stokes = Lower(stk.name)]
            /\ UNCHANGED raised
       ELSE /\ stk' = [stk EXCEPT !.pc = "done", !.stokes = Lower(stk.name)]
            /\ raised' = "ValueError: Wrong Stokes parameter."
    /\ UNCHANGED <<spec, varsIdx, varsLane, varsSp, ops, lsel, calls, file>>

StokesResult(data, r) ==
    /\ stk' = [stk EXCEPT !.pc = "done", !.sel = data, !.out = r.out]
    /\ raised' = r.raised

\* NenuStokes.__getitem__
StokesGetitem ==
    /\ stk.pc = "built"
    /\ IF selection(stk.stokes, stk.data, stk.g) = NoArray
       THEN StokesResult(NoArray, [raised |-> Unbound, out |-> NoArray])
       ELSE StokesResult(selection(stk.stokes, stk.data, stk.g),
                         stokes_correct(selection(stk.stokes, stk.data, stk.g),
                                        stk.g, stk.bp_corr))
    /\ UNCHANGED <<spec, varsIdx, varsLane, varsSp, ops, lsel, calls, file>>

NextStokes ==
    \/ StokesNew
    \/ StokesGetitem

SpecStokes == InitStokes /\ [][NextStokes]_vars

Indexed == stk.pc = "done" /\ stk.stokes \in allowed_stokes

\* C12: the array reconstructed from the raw samples holds, at every block,
\* channel, sample and bin, I = fft0[0] + fft0[1], Q = fft0[0] - fft0[1],
\* U = 2 fft1[0], V = -2 fft1[1], XX = 2 fft0[0], YY = 2 fft0[1], whatever
\* the case the name is written in; fft0 = (1, 1) gives I = 2 and Q = 0,
\* fft0 = (3, 1) gives I = 4, Q = 2, XX = 6, YY = 2.
C12_PointwiseStokes ==
    Indexed =>
        /\ stk.sel.shape = <<stk.g.ntb, stk.g.nfb, stk.g.nffte, stk.g.fftlen>>
        /\ \A b \in 0..(stk.g.ntb - 1), c \in 0..(stk.g.nfb - 1),
              s \in 0..(stk.g.nffte - 1), j \in 0..(stk.g.fftlen - 1) :
              LET x0 == fft0(stk.data, stk.g, b, c, s, j)
                  x1 == fft1(stk.data, stk.g, b, c, s, j)
                  e  == stk.sel.flat[idx4(stk.sel.shape, b, c, s, j) + 1]
              IN  /\ stk.name \in {"I", "i"} => e = x0[1] + x0[2]
                  /\ stk.name \in {"Q", "q"} => e = x0[1] - x0[2]
                  /\ stk.name \in {"U", "u"} => e = 2 * x1[1]
                  /\ stk.name \in {"V", "v"} => e = (0 - 2) * x1[2]
                  /\ stk.name \in {"XX", "Xx", "xx"} => e = 2 * x0[1]
                  /\ stk.name \in {"YY", "yY", "yy"} => e = 2 * x0[2]
                  /\ (stk.data = 1 /\ stk.name = "I") => e = 2
                  /\ (stk.data = 1 /\ stk.name = "q") => e = 0
                  /\ (stk.data = 2 /\ stk.name = "i") => e = 4
                  /\ (stk.data = 2 /\ stk.name = "Q") => e = 2
                  /\ (stk.data = 2 /\ stk.name = "Xx") => e = 6
                  /\ (stk.data = 2 /\ stk.name = "yY") => e = 2

\* Q was asked for in capitals on raw data that differ from bin to bin, and
\* the array came back
C12_Witness ==
    /\ Indexed /\ raised = None
    /\ stk.name = "Q" /\ stk.data = 3 /\ stk.g.fftlen = 4 /\ stk.g.nfb = 2
    /\ Len(stk.sel.flat) >= 8
    /\ stk.sel.flat[2] = 0 - 1

\* the reconstruction as correct sees it before the halves are inverted:
\* (time sample, channel, half, bin of the half)
Beamlets ==
    reshape(swapaxes12(stk.sel),
            <<stk.g.ntb * stk.g.nffte, stk.g.nfb, 2, stk.g.fftlen \div 2>>)

\* C13: for an even fft_length the array returned holds bin j of a channel
\* at bin (j + fft_length/2) mod fft_length of the same channel and the same
\* time sample, and inverting the halves twice gives the array back; for an
\* odd fft_length the indexing raises.
C13_HalfSwap ==
    Indexed =>
        /\ stk.g.fftlen % 2 = 1 =>
               /\ raised = "ValueError: Problem with fftlen value!"
               /\ stk.out = NoArray
        /\ (stk.g.fftlen % 2 = 0 /\ raised = None) =>
               /\ \A b \in 0..(stk.g.ntb - 1), c \in 0..(stk.g.nfb - 1),
                     s \in 0..(stk.g.nffte - 1), j \in 0..(stk.g.fftlen - 1) :
                     stk.out.flat[(b * stk.g.nffte + s) * (stk.g.nfb * stk.g.fftlen)
                                  + c * stk.g.fftlen
                                  + ((j + stk.g.fftlen \div 2) % stk.g.fftlen)
                                  + 1].val
                         = stk.sel.flat[idx4(stk.sel.shape, b, c, s, j) + 1]
               /\ invert_halves(invert_halves(Beamlets)) = Beamlets

\* four bins a channel, all different: the first bin returned is the third
\* of the file
C13_Witness ==
    /\ Indexed /\ raised = None
    /\ stk.g.fftlen = 4 /\ stk.data = 3 /\ stk.stokes = "xx"
    /\ stk.out.flat[1].val = stk.sel.flat[3]
    /\ stk.out.flat[1].val # stk.sel.flat[1]

\* C14: with the bandpass correction disabled the array returned is the
\* reshaped, half-inverted reconstruction, every value untouched; in every
\* bandpass mode an array that is returned has the shape
\* (ntb * nffte, nfb * fftlen).
C14_BandpassOffIdentity ==
    Indexed =>
        /\ raised = None =>
               /\ stk.out.shape = <<stk.g.ntb * stk.g.nffte,
                                    stk.g.nfb * stk.g.fftlen>>
               /\ Len(stk.out.flat) = stk.g.ntb * stk.g.nffte
                                          * stk.g.nfb * stk.g.fftlen
        /\ (stk.bp_corr = "none" /\ stk.g.fftlen % 2 = 0) =>
               /\ raised = None
               /\ \A k \in 1..Len(stk.out.flat) :
                     stk.out.flat[k] =
                         [val |-> invert_halves(Beamlets).flat[k], bp |-> "none"]

\* sixteen bins a channel, no bandpass correction
C14_Witness ==
    /\ Indexed /\ raised = None
    /\ stk.bp_corr = "none" /\ stk.g.fftlen = 16 /\ stk.data = 3
    /\ stk.out.shape = <<stk.g.ntb * stk.g.nffte, stk.g.nfb * 16>>
    /\ stk.out.flat[1] = [val |-> stk.sel.flat[9], bp |-> "none"]

\* the precomputed correction is applied and returns where fftlen >= 16
C14_KaiserReturns ==
    (Indexed /\ stk.bp_corr = "kaiser" /\ stk.g.fftlen % 2 = 0) =>
        (raised = None <=> stk.g.fftlen >= 16)

(***************************************************************************)
(* SpecSteps: Lane.select statement by statement.  lsel is the frame of    *)
(* the call: pc is the statement to run next, the other fields are the     *)
(* locals assigned so far (an index is -1, an array empty, until it is     *)
(* assigned); mem is what _check_memory did.                               *)
(***************************************************************************)
NoFrame ==
    [pc |-> "setters", tmin_idx |-> 0 - 1, tmax_idx |-> 0 - 1,
     fmin_idx |-> 0 - 1, fmax_idx |-> 0 - 1, mem |-> "not called",
     times |-> <<>>, t_mask |-> <<>>, freqs |-> <<>>, f_mask |-> <<>>,
     spectrum |-> <<>>]

Ends(lo, hi) ==
    {<<a, b>> : a \in {lo - Margin, lo, hi, hi + Margin},
                b \in {lo - Margin, lo, hi, hi + Margin}} \cup {NoRange}

StepMem == {400, 500, 8000}

InitSteps ==
    /\ lane \in LaneFiles
    /\ \E b \in Range(lane.beams) \cup {NoBeam, AbsentBeam} :
       \E t \in Ends(time_min(lane), time_max(lane)),
          f \in (IF b = AbsentBeam THEN {NoRange}
                 ELSE Ends(freq_min(lane, IF b = NoBeam THEN At(lane.beams, 0) ELSE b),
                           freq_max(lane, IF b = NoBeam THEN At(lane.beams, 0) ELSE b))),
          m \in StepMem :
          req = [time |-> t, freq |-> f, beam |-> b, avail |-> m, done |-> FALSE]
    /\ _beam = NewLane(lane).beam
    /\ _time = NewLane(lane).time
    /\ _freq = NewLane(lane).freq
    /\ warnings = 0
    /\ raised = None
    /\ spec = NoSpec
    /\ lsel = NoFrame
    /\ IdxIdle /\ SpIdle /\ OpsIdle /\ StkIdle /\ CallsIdle /\ FileIdle

\* self.beam = beam; self.time = time; self.freq = freq
setters(l, o, time, freq, beam) ==
    IF beam_setter(l, o, beam).raised # None THEN beam_setter(l, o, beam)
    ELSE IF time_setter(l, beam_setter(l, o, beam), time).raised # None
    THEN time_setter(l, beam_setter(l, o, beam), time)
    ELSE freq_setter(l, time_setter(l, beam_setter(l, o, beam), time), freq)

StepsKeep == UNCHANGED <<lane, varsIdx, varsSp, ops, stk, calls, file>>

StepsRaise(what) ==
    /\ raised' = what
    /\ lsel' = [lsel EXCEPT !.pc = "done"]
    /\ req' = [req EXCEPT !.done = TRUE]

StepsSet(o) ==
    /\ _beam' = o.beam
    /\ _time' = o.time
    /\ _freq' = o.freq
    /\ warnings' = o.warnings
    /\ IF o.raised # None
       THEN StepsRaise(o.raised)
       ELSE /\ lsel' = [lsel EXCEPT !.pc = "intervals"]
            /\ UNCHANGED <<raised, req>>
    /\ UNCHANGED spec
    /\ StepsKeep

StepSetters ==
    /\ lsel.pc = "setters"
    /\ StepsSet(setters(lane,
                        [beam |-> _beam, time |-> _time, freq |-> _freq,
                         warnings |-> warnings, raised |-> None],
                        req.time, req.freq, req.beam))

\* the two tests of the selected intervals against dt and df
StepIntervals ==
    /\ lsel.pc = "intervals"
    /\ IF _time[2] - _time[1] < dt(lane)
       THEN StepsRaise("ValueError: Time interval selected < dt")
       ELSE IF _freq[2] - _freq[1] < df(lane)
       THEN StepsRaise("ValueError: Frequency interval selected < df")
       ELSE /\ lsel' = [lsel EXCEPT !.pc = "indices"]
            /\ UNCHANGED <<raised, req>>
    /\ UNCHANGED <<spec, _beam, _time, _freq, warnings>>
    /\ StepsKeep

\* tmin_idx, tmax_idx, fmin_idx, fmax_idx
StepIndices ==
    /\ lsel.pc = "indices"
    /\ lsel' = [lsel EXCEPT !.pc = "memory",
                            !.tmin_idx = _t2bidx(lane, _time[1], "low"),
                            !.tmax_idx = _t2bidx(lane, _time[2], "high"),
                            !.fmin_idx = _f2bidx(lane, _beam, _freq[1], "low"),
                            !.fmax_idx = _f2bidx(lane, _beam, _freq[2], "high")]
    /\ UNCHANGED <<raised, req, spec, _beam, _time, _freq, warnings>>
    /\ StepsKeep

\* self._check_memory(nt=..., nf=...)
StepMemory ==
    /\ lsel.pc = "memory"
    /\ IF _check_memory(lane, lsel.tmax_idx + 1 - lsel.tmin_idx,
                        lsel.fmax_idx + 1 - lsel.fmin_idx, req.avail)
       THEN /\ raised' = "MemoryError"
            /\ lsel' = [lsel EXCEPT !.pc = "done", !.mem = "raised"]
            /\ req' = [req EXCEPT !.done = TRUE]
       ELSE /\ lsel' = [lsel EXCEPT !.pc = "times", !.mem = "passed"]
            /\ UNCHANGED <<raised, req>>
    /\ UNCHANGED <<spec, _beam, _time, _freq, warnings>>
    /\ StepsKeep

\* times = self._get_time(...); t_mask = ...
StepTimes ==
    /\ lsel.pc = "times"
    /\ lsel' = [lsel EXCEPT
                   !.pc = "freqs",
                   !.times = _get_time(lane, lsel.tmin_idx, lsel.tmax_idx + 1),
                   !.t_mask = t_mask(_get_time(lane, lsel.tmin_idx,
                                               lsel.tmax_idx + 1), _time)]
    /\ UNCHANGED <<raised, req, spec, _beam, _time, _freq, warnings>>
    /\ StepsKeep

\* freqs = self._get_freq(...); f_mask = ...
StepFreqs ==
    /\ lsel.pc = "freqs"
    /\ lsel' = [lsel EXCEPT
                   !.pc = "read",
                   !.freqs = _get_freq(lane, _beam, lsel.fmin_idx,
                                       lsel.fmax_idx + 1),
                   !.f_mask = f_mask(_get_freq(lane, _beam, lsel.fmin_idx,
                                               lsel.fmax_idx + 1), _freq)]
    /\ UNCHANGED <<raised, req, spec, _beam, _time, _freq, warnings>>
    /\ StepsKeep

\* spectrum = NenuStokes(...)[tmin_idx:tmax_idx + 1, fmin_idx:fmax_idx + 1]
StepRead ==
    /\ lsel.pc = "read"
    /\ IF lane.fftlen % 2 # 0
       THEN StepsRaise("ValueError: Problem with fftlen value")
       ELSE IF lsel.tmax_idx + 1 > lane.ntb \/ lsel.fmax_idx + 1 > Len(lane.beams)
       THEN StepsRaise("ValueError: cannot reshape")
       ELSE /\ lsel' = [lsel EXCEPT
                           !.pc = "build",
                           !.spectrum = correct(lane, lsel.tmin_idx,
                                                lsel.tmax_idx + 1,
                                                lsel.fmin_idx, lsel.fmax_idx + 1)]
            /\ UNCHANGED <<raised, req>>
    /\ UNCHANGED <<spec, _beam, _time, _freq, warnings>>
    /\ StepsKeep

\* return SpecData(data=spectrum[t_mask, :][:, f_mask], ...)
StepBuild ==
    /\ lsel.pc = "build"
    /\ spec' = SpecData([i \in 1..Len(MaskSeq(lsel.times, lsel.t_mask)) |->
                            MaskSeq(MaskSeq(lsel.spectrum, lsel.t_mask)[i],
                                    lsel.f_mask)],
                        MaskSeq(lsel.times, lsel.t_mask),
                        MaskSeq(lsel.freqs, lsel.f_mask), "i")
    /\ lsel' = [lsel EXCEPT !.pc = "done"]
    /\ req' = [req EXCEPT !.done = TRUE]
    /\ UNCHANGED <<raised, _beam, _time, _freq, warnings>>
    /\ StepsKeep

NextSteps ==
    \/ StepSetters
    \/ StepIntervals
    \/ StepIndices
    \/ StepMemory
    \/ StepTimes
    \/ StepFreqs
    \/ StepRead
    \/ StepBuild

SpecSteps == InitSteps /\ [][NextSteps]_vars

\* the bytes Lane.select is about to read are more than 90% of the bytes
\* available
OverBudget ==
    ((lsel.tmax_idx + 1 - lsel.tmin_idx) * lane.nffte
        * (lsel.fmax_idx + 1 - lsel.fmin_idx) * lane.fftlen * (16 + 12)) * 10
        > req.avail * 9

IndicesSet ==
    lsel.tmin_idx >= 0 /\ lsel.tmax_idx >= 0 /\ lsel.fmin_idx >= 0 /\ lsel.fmax_idx >= 0

NothingBuilt ==
    /\ lsel.times = <<>> /\ lsel.freqs = <<>>
    /\ lsel.t_mask = <<>> /\ lsel.f_mask = <<>>
    /\ lsel.spectrum = <<>>
    /\ spec = NoSpec

\* C15: _check_memory runs once the four indices are set and while no axis,
\* mask, sample or SpecData exists; a selection over the budget ends there
\* with MemoryError and no SpecData, and nothing is built unless the check
\* passed.
C15_MemoryGuardFirst ==
    /\ lsel.mem # "not called" => IndicesSet
    /\ lsel.pc = "memory" => (IndicesSet /\ NothingBuilt /\ lsel.mem = "not called")
    /\ (lsel.mem = "passed" \/ lsel.mem = "raised") =>
           (lsel.mem = "raised" <=> OverBudget)
    /\ lsel.mem = "raised" =>
           /\ lsel.pc = "done" /\ raised = "MemoryError" /\ NothingBuilt
    /\ ~ NothingBuilt => (lsel.mem = "passed" /\ ~ OverBudget)
    /\ raised = "MemoryError" => (lsel.mem = "raised" /\ spec = NoSpec)

\* a call that ended at the memory check, over the budget
C15_Witness ==
    /\ lsel.pc = "done" /\ lsel.mem = "raised" /\ OverBudget
    /\ IndicesSet /\ raised = "MemoryError" /\ spec = NoSpec
    /\ req.avail = 400 /\ lsel.tmax_idx > lsel.tmin_idx

\* the statements taken one by one give what select gives as a whole
StepsAgree ==
    lsel.pc = "done" =>
        /\ raised = select(lane, [beam |-> NewLane(lane).beam,
                                  time |-> NewLane(lane).time,
                                  freq |-> NewLane(lane).freq,
                                  warnings |-> 0, raised |-> None],
                           "i", req.time, req.freq, req.beam, req.avail).o.raised
        /\ spec = select(lane, [beam |-> NewLane(lane).beam,
                                time |-> NewLane(lane).time,
                                freq |-> NewLane(lane).freq,
                                warnings |-> 0, raised |-> None],
                         "i", req.time, req.freq, req.beam, req.avail).spec

(***************************************************************************)
(* SpecSession: up to MaxCalls calls of Spectrum.select, one after the     *)
(* other, on the same Spectrum object; calls is the list of the keyword    *)
(* arguments of the calls made so far.                                     *)
(***************************************************************************)
MaxCalls == 2

SessionObs == {<<LaneA, LaneB, LaneC>>}

\* keyword arguments: not given, None, or a range inside the observation
SessionKw(files) ==
    {[time |-> t, freq |-> f, beam |-> b, done |-> FALSE] :
        t \in {Absent, NoRange,
               <<SetMin(Column(desctab(files), "tmin")) + dt(files[1]),
                 SetMin(Column(desctab(files), "tmin")) + 2 * dt(files[1])>>},
        f \in {Absent, NoRange,
               <<SetMin(Column(desctab(files), "fmin")),
                 SetMin(Column(desctab(files), "fmin")) + FUnit>>},
        b \in {AbsentB, NoBeam, desctab(files)[Len(desctab(files))].beam}}

InitSession ==
    /\ obs \in SessionObs
    /\ sp = NewSpectrum(obs)
    /\ calls = <<>>
    /\ kw = None /\ avg = None
    /\ parts = <<>>
    /\ raised = None
    /\ spec = NoSpec
    /\ IdxIdle /\ LaneIdle /\ OpsIdle /\ StkIdle /\ LselIdle /\ FileIdle

SessionSelect ==
    /\ Len(calls) < MaxCalls
    /\ \E k \in SessionKw(obs) :
          /\ SpectrumResult(sp_select(obs, sp, "i", k, ObsMem))
          /\ calls' = Append(calls, k)
    /\ UNCHANGED <<obs, kw, avg, varsIdx, varsLane, ops, stk, lsel, file>>

NextSession == SessionSelect

SpecSession == InitSession /\ [][NextSession]_vars

FullTime(files) ==
    <<SetMin(Column(desctab(files), "tmin")), SetMax(Column(desctab(files), "tmax"))>>

FullFreq(files) ==
    <<SetMin(Column(desctab(files), "fmin")), SetMax(Column(desctab(files), "fmax"))>>

LastCall == calls[Len(calls)]

\* C18: after every call of Spectrum.select a time, frequency or beam
\* argument that was omitted or None stands for the full observed times,
\* the full observed frequencies and the first beam found, whatever the
\* calls before selected.
C18_DefaultsEveryCall ==
    calls # <<>> =>
        /\ (LastCall.time = Absent \/ LastCall.time = NoRange) =>
               sp.time = FullTime(obs)
        /\ (LastCall.freq = Absent \/ LastCall.freq = NoRange) =>
               sp.freq = FullFreq(obs)
        /\ (LastCall.beam = AbsentB \/ LastCall.beam = NoBeam) =>
               sp.beam = desctab(obs)[1].beam

\* the part of C18 that holds: an argument given as None stands for the full
\* bounds and the first beam
C18_NoneIsDefault ==
    calls # <<>> =>
        /\ LastCall.time = NoRange => sp.time = FullTime(obs)
        /\ LastCall.freq = NoRange => sp.freq = FullFreq(obs)
        /\ LastCall.beam = NoBeam => sp.beam = desctab(obs)[1].beam

\* what the code does: an argument that is not given leaves the selection of
\* the call before in place
C18_OmittedKeepsSelection ==
    [][\A k \in SessionKw(obs) :
          calls' = Append(calls, k) =>
              /\ k.time = Absent => sp'.time = sp.time
              /\ k.freq = Absent => sp'.freq = sp.freq
              /\ k.beam = AbsentB => sp'.beam = sp.beam]_vars

(***************************************************************************)
(* Spectrum.select and the rows of the description table (SpecSpectrum).   *)
(***************************************************************************)
Touches(lo, hi, q) == (lo <= q[1] /\ q[1] <= hi) \/ (q[1] <= lo /\ lo <= q[2])

\* the rows of the table that match the selection the call resolved
Matching ==
    SelectSeq(desctab(obs),
              LAMBDA r : /\ r.beam = sp.beam
                         /\ Touches(r.tmin, r.tmax, sp.time)
                         /\ Touches(r.fmin, r.fmax, sp.freq))

EmptySelection == raised = "ValueError: Empty selection"

\* what Lane.select gives for the file of the i-th matching row
FromRow(i) ==
    select(Matching[i].file, NewLane(Matching[i].file), "i",
           sp.time, sp.freq, sp.beam, ObsMem)

header_itemsize == 3 * 8 + 6 * 4

\* np.dtype(beamlet_struct).itemsize: lane, beam, channel as int32, fft0 and
\* fft1 as float32 arrays of shape (nffte, fftlen, 2)
beamlet_itemsize(g) == 3 * 4 + 2 * (g.nffte * g.fftlen * 2 * 4)

\* np.dtype(block_struct).itemsize
block_itemsize(g) == header_itemsize + g.nbchan * beamlet_itemsize(g)

n_blocks_up(L, itemsize) ==
    \* mutant: a partial block counts as a block
    (L + itemsize - 1) \div itemsize

n_blocks(L, itemsize) == L \div itemsize

MaxBytes == 700

MaxChan == 2

FileLens == {1, 2}

NoFile == [size |-> 0, g |-> [nffte |-> 0, fftlen |-> 0, nbchan |-> 0],
           pc |-> "closed", n_blocks |-> 0, view |-> 0, ntb |-> 0]

InitOpen ==
    /\ IdxIdle /\ LaneIdle /\ SpIdle
    /\ OpsIdle /\ StkIdle /\ LselIdle /\ CallsIdle
    /\ raised = None /\ spec = NoSpec
    /\ \E L \in 0..MaxBytes, nffte \in 1..MaxFFTe, fftlen \in FileLens,
          nbchan \in 0..MaxChan :
          file = [NoFile EXCEPT !.size = L,
                                !.g = [nffte |-> nffte, fftlen |-> fftlen,
                                       nbchan |-> nbchan]]

\* the sfile setter: self._load() and then self._parse_tf().  np.frombuffer
\* needs a whole header; self.memdata['TIMESTAMP'][0] needs a first block
FileOpen ==
    /\ file.pc = "closed"
    /\ IF file.size < header_itemsize
       THEN /\ raised' = "ValueError: buffer is smaller than requested size"
            /\ file' = [file EXCEPT !.pc = "failed"]
       ELSE IF n_blocks(file.size, block_itemsize(file.g)) = 0
       THEN /\ raised' = "IndexError: index 0 is out of bounds"
            /\ file' = [file EXCEPT !.pc = "failed"]
       ELSE /\ UNCHANGED raised
            /\ file' = [file EXCEPT
                           !.pc = "open",
                           !.n_blocks = n_blocks(file.size, block_itemsize(file.g)),
                           !.view = n_blocks(file.size, block_itemsize(file.g))
                                        * block_itemsize(file.g),
                           !.ntb = n_blocks(file.size, block_itemsize(file.g))]
    /\ UNCHANGED <<spec, varsIdx, varsLane, varsSp, ops, stk, lsel, calls>>

NextOpen == FileOpen

SpecOpen == InitOpen /\ [][NextOpen]_vars

block_stride ==
    48 + file.g.nbchan * (3 * 4 + 2 * file.g.nffte * file.g.fftlen * 2 * 4)

Opened == file.pc # "closed"

\* C20: a file of at least one block opens without error; the number of
\* blocks decoded is floor(L / block_stride), block_stride being
\* header_size + channel_count * (3*4 + 2*nffte*fftlen*2*4) bytes, the view
\* covers the first block_count * block_stride bytes and the bytes after
\* them, less than a block, are dropped.  A file shorter than one block
\* does not open.
C20_BlockCount ==
    Opened =>
        /\ file.size >= block_stride =>
               /\ raised = None /\ file.pc = "open"
               /\ file.n_blocks * block_stride <= file.size
               /\ file.size < (file.n_blocks + 1) * block_stride
               /\ file.view = file.n_blocks * block_stride
               /\ file.ntb = file.n_blocks
        /\ file.size < block_stride =>
               /\ raised # None /\ file.pc = "failed"
               /\ file.n_blocks = 0 /\ file.view = 0

\* two whole blocks and some bytes of a third
C20_Witness ==
    /\ file.pc = "open" /\ raised = None
    /\ file.n_blocks = 2
    /\ file.size > file.view

\* C20 as stated, for every file length
C20_Original ==
    Opened =>
        /\ raised = None
        /\ file.n_blocks * block_stride <= file.size
        /\ file.size < (file.n_blocks + 1) * block_stride
        /\ file.view = file.n_blocks * block_stride

(***************************************************************************)
(* SpecParse: the time axis of a lane file.  The file is the list of the   *)
(* TIMESTAMP fields of its blocks' headers (stamps) and the geometry of    *)
(* its header; times are in ticks of 5.12e-6 s.  Lane._parse_tf builds the *)
(* block axis, Lane._get_time the sample times of a range of blocks.       *)
(***************************************************************************)
MaxStamps == 3

StartTicks == {10, 11}

\* the header TIMESTAMPs of n blocks: block i + 1 follows block i after one
\* block duration plus late[i] ticks
Stamps(t0, g, n, late) ==
    LET at[i \in 1..n] ==
            IF i = 1 THEN t0
            ELSE at[i - 1] + g.fftlen * g.nfft2int * g.nffte + late[i - 1]
    IN  [i \in 1..n |-> at[i]]

\* what Lane._load and Lane._parse_tf keep of the file
AsLane(f) ==
    [id |-> 0, TIMESTAMP |-> f.stamps[1], ntb |-> Len(f.stamps),
     nffte |-> f.g.nffte, fftlen |-> f.g.fftlen, nfft2int |-> f.g.nfft2int,
     beams |-> <<0>>, channels |-> <<5>>]

InitParse ==
    /\ IdxIdle /\ LaneIdle /\ SpIdle
    /\ OpsIdle /\ StkIdle /\ LselIdle /\ CallsIdle
    /\ raised = None /\ spec = NoSpec
    /\ \E t0 \in StartTicks, n \in 1..MaxStamps, nffte \in 1..2,
          fftlen \in {1, 2}, nfft2int \in 1..2 :
       \E late \in [1..(n - 1) -> {0, 1}] :
          file = [stamps |-> Stamps(t0, [nffte |-> nffte, fftlen |-> fftlen,
                                         nfft2int |-> nfft2int], n, late),
                  g |-> [nffte |-> nffte, fftlen |-> fftlen,
                         nfft2int |-> nfft2int],
                  pc |-> "loaded", timestamps |-> <<>>,
                  id_min |-> 0, id_max |-> 0, times |-> <<>>]

ParseKeep ==
    UNCHANGED <<raised, spec, varsIdx, varsLane, varsSp, ops, stk, lsel, calls>>

\* Lane._parse_tf
ParseTf ==
    /\ file.pc = "loaded"
    /\ file' = [file EXCEPT !.pc = "parsed",
                            !.timestamps = _timestamps(AsLane(file))]
    /\ ParseKeep

\* Lane._get_time(id_min, id_max)
ParseGetTime ==
    /\ file.pc = "parsed"
    /\ \E a \in 0..(Len(file.stamps) - 1), b \in 1..Len(file.stamps) :
          /\ a < b
          /\ file' = [file EXCEPT !.pc = "timed", !.id_min = a, !.id_max = b,
                                  !.times = _get_time(AsLane(file), a, b)]
    /\ ParseKeep

NextParse ==
    \/ ParseTf
    \/ ParseGetTime

SpecParse == InitParse /\ [][NextParse]_vars

Parsed == file.pc \in {"parsed", "timed"}

\* C21: the block time axis gives every block the TIMESTAMP of its own
\* header, also when the blocks do not follow each other at one stride.
C21_OwnTimestamps ==
    Parsed => \A i \in 1..Len(file.stamps) : file.timestamps[i] = file.stamps[i]

\* the part of C21 that holds: the first block, and every block of a file
\* whose blocks follow each other at one block duration
C21_UniformFiles ==
    Parsed =>
        /\ file.timestamps[1] = file.stamps[1]
        /\ (\A i \in 2..Len(file.stamps) :
                file.stamps[i] - file.stamps[i - 1]
                    = file.g.fftlen * file.g.nfft2int * file.g.nffte)
               => file.timestamps = file.stamps

\* C22: block i starts at header.timestamp + i * block_duration with
\* block_duration = fft_length * fft_integration_count * samples_per_block
\* ticks of 5.12e-6 s, and sample k of a block is k * fft_length *
\* fft_integration_count ticks after the start of the block.
C22_BlockAndSampleTimes ==
    /\ Parsed =>
           /\ Len(file.timestamps) = Len(file.stamps)
           /\ \A i \in 0..(Len(file.stamps) - 1) :
                  At(file.timestamps, i) =
                      file.stamps[1]
                          + i * (file.g.fftlen * file.g.nfft2int * file.g.nffte)
    /\ file.pc = "timed" =>
           /\ Len(file.times) = (file.id_max - file.id_min) * file.g.nffte
           /\ \A i \in file.id_min..(file.id_max - 1), k \in 0..(file.g.nffte - 1) :
                  At(file.times, (i - file.id_min) * file.g.nffte + k) =
                      At(file.timestamps, i)
                          + k * (file.g.fftlen * file.g.nfft2int)

\* the samples of the second and of the third block of a file with two bins
\* a channel
C22_Witness ==
    /\ file.pc = "timed"
    /\ file.g.fftlen = 2 /\ file.g.nffte = 2
    /\ file.id_min = 1 /\ file.id_max = 3
    /\ Len(file.times) = 4

\* C22 as stated: block_duration = samples_per_block * fft_integration_count
\* ticks
C22_Original ==
    Parsed =>
        \A i \in 0..(Len(file.stamps) - 1) :
            At(file.timestamps, i) =
                file.stamps[1] + i * (file.g.nffte * file.g.nfft2int)

(***************************************************************************)
(* SpecTable: the channel indices and the frequency axis Lane.select works *)
(* out for a beam and a frequency range, on beam/channel tables whose      *)
(* beams are stored one after the other, interleaved, or in falling order. *)
(***************************************************************************)
TableFiles ==
    {[id |-> 0, TIMESTAMP |-> 10, ntb |-> 1, nffte |-> 1, fftlen |-> 2,
      nfft2int |-> 1, beams |-> t[1], channels |-> t[2]] :
        t \in {<<<<0, 0, 1>>, <<5, 6, 9>>>>,
               <<<<0, 0, 1, 1>>, <<5, 6, 5, 6>>>>,
               <<<<0, 1, 0, 1>>, <<5, 5, 6, 6>>>>,
               <<<<1, 1, 0>>, <<5, 6, 9>>>>}}

NoIndices == [pc |-> "call", fmin_idx |-> 0 - 1, fmax_idx |-> 0 - 1, freqs |-> <<>>]

InitTable ==
    /\ lane \in TableFiles
    /\ \E b \in Range(lane.beams) :
       \E f \in Ends(freq_min(lane, b), freq_max(lane, b)) :
          req = [time |-> NoRange, freq |-> f, beam |-> b, avail |-> 0,
                 done |-> FALSE]
    /\ _beam = NewLane(lane).beam
    /\ _time = NewLane(lane).time
    /\ _freq = NewLane(lane).freq
    /\ warnings = 0
    /\ raised = None
    /\ spec = NoSpec
    /\ lsel = NoIndices
    /\ IdxIdle /\ SpIdle /\ OpsIdle /\ StkIdle /\ CallsIdle /\ FileIdle

TableKeep == UNCHANGED <<lane, spec, varsIdx, varsSp, ops, stk, calls, file>>

\* self.beam = beam; self.freq = freq, as Lane.select does before it works
\* out the indices
TableSet ==
    /\ lsel.pc = "call"
    /\ StepsSet(setters(lane,
                        [beam |-> _beam, time |-> _time, freq |-> _freq,
                         warnings |-> warnings, raised |-> None],
                        req.time, req.freq, req.beam))
    /\ TableKeep

\* fmin_idx, fmax_idx and freqs = self._get_freq(fmin_idx, fmax_idx + 1)
TableIndices ==
    /\ lsel.pc = "indices"
    /\ lsel' = [lsel EXCEPT
                   !.pc = "done",
                   !.fmin_idx = _f2bidx(lane, _beam, _freq[1], "low"),
                   !.fmax_idx = _f2bidx(lane, _beam, _freq[2], "high"),
                   !.freqs = _get_freq(lane, _beam,
                                       _f2bidx(lane, _beam, _freq[1], "low"),
                                       _f2bidx(lane, _beam, _freq[2], "high") + 1)]
    /\ req' = [req EXCEPT !.done = TRUE]
    /\ UNCHANGED <<raised, _beam, _time, _freq, warnings>>
    /\ TableKeep

NextTable ==
    \/ TableSet
    \/ StepIntervals
    \/ TableIndices

SpecTable == InitTable /\ [][NextTable]_vars

Sliced == lsel.pc = "done" /\ raised = None

\* the place of the first channel of the selected beam in the table
FirstOfBeam == SetMin({i \in 0..(Len(lane.beams) - 1) : At(lane.beams, i) = _beam})

\* the channels of the table between the two indices are those of the beam,
\* and the frequency axis has fftlen entries for each, in their order
SliceOfBeam ==
    /\ \A c \in lsel.fmin_idx..lsel.fmax_idx :
           c < Len(lane.beams) /\ At(lane.beams, c) = _beam
    /\ Len(lsel.freqs) = (lsel.fmax_idx + 1 - lsel.fmin_idx) * lane.fftlen
    /\ \A c \in lsel.fmin_idx..lsel.fmax_idx, j \in 0..(lane.fftlen - 1) :
           c < Len(lane.channels) =>
               At(lsel.freqs, (c - lsel.fmin_idx) * lane.fftlen + j)
                   = At(lane.channels, c) * FUnit + j * df(lane)

\* C23: whatever the table, the indices [fmin_idx, fmax_idx] are the indices
\* among the beam's channels moved by the place of the beam's first channel
\* in the table, lie on channels of the selected beam only, and the
\* frequency axis matches the sliced channels entry for entry.
C23_BeamLocalSlice ==
    Sliced =>
        /\ lsel.fmin_idx =
               idx_of(frequencies(lane, _beam), _freq[1], "low") + FirstOfBeam
        /\ lsel.fmax_idx =
               idx_of(frequencies(lane, _beam), _freq[2], "high") + FirstOfBeam
        /\ SliceOfBeam

\* the part of C23 that holds: tables that store the beams one after the
\* other in rising order
C23_SortedTables ==
    (Sliced /\ IsSorted(lane.beams)) =>
        /\ lsel.fmin_idx =
               idx_of(frequencies(lane, _beam), _freq[1], "low") + FirstOfBeam
        /\ lsel.fmax_idx =
               idx_of(frequencies(lane, _beam), _freq[2], "high") + FirstOfBeam
        /\ SliceOfBeam

(***************************************************************************)
(* SpecCache: compute_bandpass behind functools.lru_cache(maxsize=1), asked *)
(* for the Kaiser gain curve by a sequence of selections with bandpass     *)
(* correction and any mix of fftlen values.                                *)
(***************************************************************************)
maxsize == 1      \* @lru_cache(maxsize=1)

MaxReq == 4       \* number of selections in a sequence

CacheFftLens == {8, 16, 32}

\* the wrapper of lru_cache around compute_bandpass: keys holds the cached
\* arguments, the most recently used last.  A hit runs nothing; a miss runs
\* the function, which raises for fftlen // 16 = 0 (np.fft.fft(kaiser, 0)),
\* and stores the result, dropping the least recently used beyond maxsize
compute_bandpass(keys, fftlen) ==
    IF \E i \in 1..Len(keys) : keys[i] = fftlen
    THEN [keys |-> SelectSeq(keys, LAMBDA k : k # fftlen) \o <<fftlen>>,
          hit |-> TRUE, ran |-> FALSE, raised |-> None]
    ELSE IF fftlen \div 16 = 0
    THEN [keys |-> keys, hit |-> FALSE, ran |-> FALSE,
          raised |-> "ValueError: Invalid number of FFT data points (0)"]
    ELSE [keys |-> IF Len(keys) + 1 > maxsize
                   THEN Tail(keys \o <<fftlen>>)
                   ELSE keys \o <<fftlen>>,
          hit |-> FALSE, ran |-> TRUE, raised |-> None]

InitCache ==
    /\ IdxIdle /\ LaneIdle /\ SpIdle /\ OpsIdle /\ LselIdle /\ FileIdle
    /\ raised = None /\ spec = NoSpec
    /\ calls = <<>>
    /\ stk = [keys |-> <<>>, runs |-> [f \in CacheFftLens |-> 0]]

\* NenuStokes.correct with bp_corr True: bp = compute_bandpass(self.fftlen)
CacheRequest(fftlen) ==
    /\ Len(calls) < MaxReq
    /\ LET r == compute_bandpass(stk.keys, fftlen)
       IN  /\ stk' = [keys |-> r.keys,
                      runs |-> [stk.runs EXCEPT
                                   ![fftlen] = @ + (IF r.ran THEN 1 ELSE 0)]]
           /\ calls' = Append(calls, [fftlen |-> fftlen, hit |-> r.hit])
           /\ raised' = r.raised
    /\ UNCHANGED <<spec, varsIdx, varsLane, varsSp, ops, lsel, file>>

NextCache == \E fftlen \in CacheFftLens : CacheRequest(fftlen)

SpecCache == InitCache /\ [][NextCache]_vars

\* C24: whatever the sequence of fftlen values, the gain curve of each value
\* is computed at most once, and every later request for a value that was
\* computed is a cache hit.
C24_OncePerFftlen ==
    /\ \A f \in CacheFftLens : stk.runs[f] <= 1
    /\ \A i, j \in 1..Len(calls) :
           (i < j /\ calls[i].fftlen = calls[j].fftlen
                  /\ calls[i].fftlen \div 16 > 0) => calls[j].hit

\* what the cache of one entry gives: a request for the value of the request
\* just before it is a hit
C24_RepeatIsHit ==
    \A j \in 2..Len(calls) :
        (calls[j - 1].fftlen = calls[j].fftlen
             /\ calls[j].fftlen \div 16 > 0) => calls[j].hit

(***************************************************************************)
(* SpecKind: NenuStokes built with any Stokes string, in any writing, and  *)
(* then indexed, on small geometries.                                      *)
(***************************************************************************)
KindNames ==
    {"I", "i", "Q", "q", "U", "u", "V", "v", "FRACV", "FracV", "fracv",
     "XX", "xX", "xx", "YY", "Yy", "yy", "ARGXY", "argxy", "PhaseXY",
     "phasexy", "Z", "z", "II", "", "stokes_i", "xy", "l"}

InitKind ==
    /\ IdxIdle /\ LaneIdle /\ SpIdle
    /\ OpsIdle /\ LselIdle /\ CallsIdle /\ FileIdle
    /\ raised = None /\ spec = NoSpec
    /\ \E nffte \in 1..MaxFFTe, fftlen \in {2, 16}, d \in Patterns,
          name \in KindNames, mode \in {"none", "kaiser"} :
          stk = [pc |-> "new",
                 g |-> [ntb |-> 1, nfb |-> 1, nffte |-> nffte,
                        fftlen |-> fftlen],
                 data |-> d, name |-> name, stokes |-> "", bp_corr |-> mode,
                 sel |-> NoArray, out |-> NoArray]

SpecKind == InitKind /\ [][NextStokes]_vars

NineKinds == {"i", "q", "u", "v", "fracv", "xx", "yy", "argxy", "phasexy"}

Branches(kind) == {n \in 1..Len(getitem_chain) : getitem_chain[n] = kind}

\* C25: a Stokes string that is one of the nine kinds in lower case is taken
\* by exactly one branch of the chain, which produces the data; any other is
\* rejected by the setter with nothing selected; no string reaches the
\* correction step without data.
C25_NineKindsOrRejected ==
    /\ stk.pc = "built" => Lower(stk.name) \in NineKinds
    /\ stk.pc = "done" =>
           /\ raised # Unbound
           /\ Lower(stk.name) \in NineKinds =>
                  /\ Cardinality(Branches(stk.stokes)) = 1
                  /\ stk.sel # NoArray
                  /\ raised # "ValueError: Wrong Stokes parameter."
           /\ Lower(stk.name) \notin NineKinds =>
                  /\ raised = "ValueError: Wrong Stokes parameter."
                  /\ stk.sel = NoArray
                  /\ stk.out = NoArray

C25_Witness ==
    /\ stk.pc = "done" /\ stk.name = "FracV" /\ raised = None
    /\ stk.sel # NoArray
    /\ stk.sel.flat[1][1] = "v/i"

C25_WitnessRejected ==
    /\ stk.pc = "done" /\ stk.name = "stokes_i"
    /\ raised = "ValueError: Wrong Stokes parameter."

(***************************************************************************)
(* SpecRebin: the reduction Spectrum.average applies to the selection of   *)
(* one slab, select(...).tmean().frebin((freq[1] - freq[0]) / df), for     *)
(* selections of 1..MaxSamples frequency samples two units apart, any df.  *)
(***************************************************************************)
MaxSamples == 4       \* frequency samples of a selection

RebinWidths == {1, 2, 3, 4, 5, 8, 16}

InitRebin ==
    /\ IdxIdle /\ LaneIdle /\ SpIdle
    /\ StkIdle /\ LselIdle /\ CallsIdle /\ FileIdle
    /\ raised = None
    /\ spec = NoSpec
    /\ \E n \in 1..MaxSamples, f0 \in {20, 21, 24}, nt \in 1..2,
          w \in RebinWidths :
          ops = [pc |-> "select",
                 x |-> Mk(1, [i \in 1..nt |-> 10 + 2 * i],
                          [j \in 1..n |-> f0 + 2 * (j - 1)], "i"),
                 freq |-> <<f0, f0 + 2 * n>>, df |-> w,
                 row |-> NoSpec, bins |-> 0]

RebinKeep == UNCHANGED <<raised, varsIdx, varsLane, varsSp, stk, lsel, calls, file>>

\* self.select(...).tmean()
RebinTmean ==
    /\ ops.pc = "select"
    /\ ops' = [ops EXCEPT !.pc = "tmean", !.row = tmean(ops.x)]
    /\ UNCHANGED spec
    /\ RebinKeep

\* .frebin((freq[1] - freq[0]) / df): bins = int(bins)
RebinFrebin ==
    /\ ops.pc = "tmean"
    /\ ops' = [ops EXCEPT !.pc = "done",
                          !.bins = int_div(ops.freq[2] - ops.freq[1], ops.df)]
    /\ spec' = frebin(ops.row, int_div(ops.freq[2] - ops.freq[1], ops.df))
    /\ RebinKeep

NextRebin ==
    \/ RebinTmean
    \/ RebinFrebin

SpecRebin == InitRebin /\ [][NextRebin]_vars

\* the samples of the row that were added up into output bin k
GroupOf(k) ==
    {p \in 1..Len(ops.row.freq) : ops.row.data[1][p].sum \subseteq spec.data[1][k].sum}

Rebinned ==
    /\ Len(spec.data) = 1
    /\ Len(spec.data[1]) = ops.bins
    /\ Len(spec.freq) = ops.bins
    \* contiguous groups covering every sample exactly once
    /\ \A p \in 1..Len(ops.row.freq) :
           Cardinality({k \in 1..ops.bins : p \in GroupOf(k)}) = 1
    /\ \A k \in 1..ops.bins :
           /\ GroupOf(k) # {}
           /\ GroupOf(k) = SetMin(GroupOf(k))..SetMax(GroupOf(k))
           /\ k > 1 => SetMin(GroupOf(k)) = SetMax(GroupOf(k - 1)) + 1
    \* sizes equal up to one
    /\ \A k, m \in 1..ops.bins :
           Cardinality(GroupOf(k)) - Cardinality(GroupOf(m)) <= 1
    \* sum of the group over its count, which is not zero
    /\ \A k \in 1..ops.bins :
           /\ spec.data[1][k].over =
                  ops.row.data[1][SetMin(GroupOf(k))].over * Cardinality(GroupOf(k))
           /\ spec.data[1][k].over # 0
           /\ spec.freq[k] = [sum  |-> SumOver(ops.row.freq, GroupOf(k)),
                              over |-> Cardinality(GroupOf(k))]

\* C26: frebin as average calls it splits the N frequency samples of the row
\* into floor((freq_max - freq_min) / df) contiguous groups that cover every
\* sample exactly once, of sizes equal up to one, none empty, and each output
\* bin of the data and of the frequency axis is the sum of its group over the
\* count of the group, which is never zero.
C26_FrebinPartition ==
    ops.pc = "done" =>
        /\ ops.bins = (ops.freq[2] - ops.freq[1]) \div ops.df
        /\ Rebinned

\* the part of C26 that holds: from one bin up to as many bins as samples
C26_EnoughSamples ==
    (ops.pc = "done" /\ ops.bins >= 1 /\ ops.bins <= Len(ops.row.freq)) =>
        /\ ops.bins = (ops.freq[2] - ops.freq[1]) \div ops.df
        /\ Rebinned

(***************************************************************************)
(* SpecAlias: Spectrum.select with the lists behind Spectrum.time and      *)
(* Spectrum.freq as objects.  file.heap holds the lists, a reference is a  *)
(* place in it; the Lane.freq setter replaces the bounds of the list it is *)
(* given in place.  calls logs what every Lane.select was given.           *)
(***************************************************************************)
freq_getter_alias(heap, ref) ==
    \* mutant: the getter hands out the stored list itself
    [heap |-> heap, ref |-> ref]

\* Spectrum.freq getter: return self._freq.copy()
freq_getter(heap, ref) ==
    [heap |-> Append(heap, heap[ref]), ref |-> Len(heap) + 1]

\* the list f after the Lane.freq setter went through it: f[0] = self.freq_min
\* and f[1] = self.freq_max where the bound lies outside, before the order of
\* the two is looked at
freq_inplace(l, b, f) ==
    <<IF f[1] < freq_min(l, b) THEN freq_min(l, b) ELSE f[1],
      IF f[2] > freq_max(l, b) THEN freq_max(l, b) ELSE f[2]>>

\* the heap after l.select(time=t, freq=ref, beam=b): the beam and the time
\* setters come first, and the freq setter is not reached if one of them raises
lane_select_heap(l, heap, ref, t, b) ==
    LET o1 == beam_setter(l, NewLane(l), b)
        o2 == time_setter(l, o1, t)
    IN  IF o1.raised # None \/ o2.raised # None THEN heap
        ELSE [heap EXCEPT ![ref] = freq_inplace(l, o1.beam, heap[ref])]

AliasObservations == {<<LaneA, LaneB, LaneC>>, <<LaneC, LaneA, LaneB>>}

NoTurns == [raised |-> None, spec |-> NoSpec, parts |-> <<>>]

InitAlias ==
    /\ obs \in AliasObservations
    /\ \E t \in {Absent, NoRange, <<10, 12>>}, f \in GridPairs(FreqGrid(obs)),
          b \in {AbsentB, 0} :
          kw = [time |-> t, freq |-> f, beam |-> b, done |-> FALSE]
    /\ sp = NewSpectrum(obs)
    /\ parts = <<>>
    /\ avg = None
    /\ raised = None
    /\ spec = NoSpec
    /\ calls = <<>>
    /\ file = [pc |-> "call", heap |-> <<>>, sfreq |-> 0, stime |-> 0,
               files |-> <<>>, i |-> 0, out |-> NoTurns]
    /\ IdxIdle /\ LaneIdle /\ OpsIdle /\ StkIdle /\ LselIdle

AliasKeep == UNCHANGED <<obs, avg, varsIdx, varsLane, ops, stk, lsel>>

\* self._parameters(**kwargs), the mask and the empty-selection test
AliasEnter ==
    /\ file.pc = "call"
    /\ LET tab == desctab(obs)
           s1  == _parameters(tab, sp, kw)
           sel == files_of(MaskSeq(tab, mask(s1)))
       IN  /\ sp' = s1
           /\ file' = [file EXCEPT
                          !.heap = <<s1.freq, s1.time>>,
                          !.sfreq = 1, !.stime = 2, !.files = sel, !.i = 1,
                          !.pc = IF sel = <<>> THEN "done" ELSE "loop"]
           /\ raised' = IF sel = <<>> THEN "ValueError: Empty selection" ELSE None
           /\ kw' = [kw EXCEPT !.done = (sel = <<>>)]
    /\ UNCHANGED <<spec, parts, calls>>
    /\ AliasKeep

\* one turn of the loop: l = Lane(f); spec = [spec &] l.select(stokes=...,
\* time=[... for t in self.time], freq=self.freq, beam=self.beam, ...)
AliasTurn ==
    /\ file.pc = "loop"
    /\ LET l   == file.files[file.i]
           g   == freq_getter(file.heap, file.sfreq)
           t   == file.heap[file.stime]
           f   == g.heap[g.ref]
           out == chain(file.out,
                        select(l, NewLane(l), "i", t, f, sp.beam, ObsMem))
           end == out.raised # None \/ file.i = Len(file.files)
       IN  /\ calls' = Append(calls, [lane |-> l.id, time |-> t, freq |-> f,
                                      ref |-> g.ref])
           /\ file' = [file EXCEPT
                          !.heap = lane_select_heap(l, g.heap, g.ref, t, sp.beam),
                          !.out = out,
                          !.i = @ + 1,
                          !.pc = IF end THEN "done" ELSE "loop"]
           /\ raised' = out.raised
           /\ spec' = IF end THEN out.spec ELSE spec
           /\ parts' = out.parts
           /\ kw' = [kw EXCEPT !.done = end]
    /\ UNCHANGED sp
    /\ AliasKeep

NextAlias ==
    \/ AliasEnter
    \/ AliasTurn

SpecAlias == InitAlias /\ [][NextAlias]_vars

\* C28: every Lane.select of a Spectrum.select is given the time and the
\* frequency range the Spectrum holds, and the lists the Spectrum holds are
\* what they were when the loop began, whatever bound a file's setter
\* replaced in the list it was given.
C28_SameRangeEveryFile ==
    file.pc \in {"loop", "done"} /\ file.heap # <<>> =>
        /\ \A n, m \in 1..Len(calls) :
               calls[n].time = calls[m].time /\ calls[n].freq = calls[m].freq
        /\ \A n \in 1..Len(calls) : calls[n].freq = sp.freq
        /\ file.heap[file.sfreq] = sp.freq
        /\ file.heap[file.stime] = sp.time

\* two files selected from, the first of which replaced a bound of its list
C28_Witness ==
    /\ Len(calls) >= 2
    /\ file.heap[calls[1].ref] # sp.freq
    /\ calls[2].freq = sp.freq
    /\ calls[2].lane # calls[1].lane

(***************************************************************************)
(* a | b on SpecOps: two operands recorded over disjoint time ranges.      *)
(***************************************************************************)
TimeStacked ==
    /\ ops.op = "|" /\ ops.n = 1
    /\ ops.self.stokes = ops.other.stokes /\ ops.self.stokes # NoTag
    /\ ops.self.freq = ops.other.freq
    /\ \/ SetMax(Range(ops.self.time)) < SetMin(Range(ops.other.time))
       \/ SetMax(Range(ops.other.time)) < SetMin(Range(ops.self.time))

\* the row of the operands that was recorded at time t
RecordedAt(t) ==
    IF t \in Range(ops.self.time)
    THEN ops.self.data[CHOOSE r \in 1..Len(ops.self.time) : ops.self.time[r] = t]
    ELSE ops.other.data[CHOOSE r \in 1..Len(ops.other.time) : ops.other.time[r] = t]

RowsFollowTime ==
    /\ raised = None
    /\ Len(spec.time) = Len(ops.self.time) + Len(ops.other.time)
    /\ StrictlyIncreasing(spec.time)
    /\ \A i \in 1..Len(spec.time) : spec.data[i] = RecordedAt(spec.time[i])

\* C29: for two SpecData of the same kind and frequency axis recorded over
\* disjoint time ranges, the concatenation in time taken either way round has
\* its rows in increasing time order, and row i of the data is the data
\* recorded at time[i].
C29_EitherOrder == TimeStacked => RowsFollowTime

\* the part of C29 that holds: the left operand is the earlier one
C29_EarlierOnTheLeft ==
    (TimeStacked /\ SetMax(Range(ops.self.time)) < SetMin(Range(ops.other.time)))
        => RowsFollowTime

(***************************************************************************)
(* SpecAssign: a sequence of assignments to Lane.beam, Lane.time and       *)
(* Lane.freq on an opened lane file.  The value assigned is None, a list   *)
(* of the caller, or, for freq, the list the getter returned: the getter   *)
(* returns self._freq, the stored list itself.                             *)
(***************************************************************************)
MaxAssign == 3      \* assignments in a sequence

InitAssign ==
    /\ lane \in LaneFiles
    /\ req = None
    /\ _beam = NewLane(lane).beam
    /\ _time = NewLane(lane).time
    /\ _freq = NewLane(lane).freq
    /\ warnings = 0
    /\ raised = None
    /\ spec = NoSpec
    /\ file = [n |-> 0, attr |-> "none", stored |-> FALSE,
               time |-> NoRange, freq |-> NoRange]
    /\ IdxIdle /\ SpIdle /\ OpsIdle /\ StkIdle /\ LselIdle /\ CallsIdle

AssignKeep == UNCHANGED <<lane, req, spec, varsIdx, varsSp, ops, stk, lsel, calls>>

Self == [beam |-> _beam, time |-> _time, freq |-> _freq,
         warnings |-> warnings, raised |-> None]

\* what an assignment leaves behind; file keeps the attribute assigned and
\* the ranges stored before it
Assigned(o, attr, stored) ==
    /\ _beam' = o.beam
    /\ _time' = o.time
    /\ _freq' = o.freq
    /\ warnings' = o.warnings
    /\ raised' = o.raised
    /\ file' = [n |-> file.n + 1, attr |-> attr, stored |-> stored,
                time |-> _time, freq |-> _freq]
    /\ AssignKeep

\* lane.beam = b
AssignBeam ==
    /\ file.n < MaxAssign
    /\ \E b \in Range(lane.beams) \cup {NoBeam, AbsentBeam} :
          Assigned(beam_setter(lane, Self, b), "beam", FALSE)

\* lane.time = t
AssignTime ==
    /\ file.n < MaxAssign
    /\ \E t \in Ends(time_min(lane), time_max(lane)) :
          Assigned(time_setter(lane, Self, t), "time", FALSE)

\* lane.freq = f, f being None or a list of the caller
AssignFreq ==
    /\ file.n < MaxAssign
    /\ \E f \in Ends(freq_min(lane, _beam), freq_max(lane, _beam)) :
          Assigned(freq_setter(lane, Self, f), "freq", FALSE)

\* lane.freq = lane.freq, as in lane.select(freq=lane.freq, beam=...): f is
\* self._freq, so that f[0] = self.freq_min and f[1] = self.freq_max replace
\* the bounds of the stored list, before the order of the two is looked at
AssignFreqStored ==
    /\ file.n < MaxAssign
    /\ Assigned([freq_setter(lane, Self, _freq) EXCEPT
                    !.freq = freq_inplace(lane, _beam, _freq)],
                "freq", TRUE)

NextAssign ==
    \/ AssignBeam
    \/ AssignTime
    \/ AssignFreq
    \/ AssignFreqStored

SpecAssign == InitAssign /\ [][NextAssign]_vars

Within(r, lo, hi) == lo <= r[1] /\ r[1] <= r[2] /\ r[2] <= hi

\* C30: right after an assignment of Lane.time or Lane.freq that does not
\* raise, the stored range lies within the time bounds of the file,
\* respectively the frequency bounds of the selected beam, lower bound first;
\* an assignment that raises leaves the stored ranges as they were.
C30_StoredRangeWithinBounds ==
    /\ (file.attr = "time" /\ raised = None) =>
           Within(_time, time_min(lane), time_max(lane))
    /\ (file.attr = "freq" /\ raised = None) =>
           Within(_freq, freq_min(lane, _beam), freq_max(lane, _beam))
    /\ (file.attr \in {"time", "freq"} /\ raised # None) =>
           (_time = file.time /\ _freq = file.freq)

\* the part of C30 that holds: the value assigned is None or a list that is
\* not the stored one
C30_ListsOfTheCaller ==
    ~ file.stored =>
        /\ (file.attr = "time" /\ raised = None) =>
               Within(_time, time_min(lane), time_max(lane))
        /\ (file.attr = "freq" /\ raised = None) =>
               Within(_freq, freq_min(lane, _beam), freq_max(lane, _beam))
        /\ (file.attr \in {"time", "freq"} /\ raised # None) =>
               (_time = file.time /\ _freq = file.freq)

(***************************************************************************)
(* SpecFrame: what Lane.select and Lane.average write to.  An array is     *)
(* named by the memory it lives in: "memdata" is the file mapped with      *)
(* mode='r', "_timestamps", "_beams", "_channels" are the axes built when  *)
(* the file was opened, any other name is an array made during the call.   *)
(* A view lives in the memory of the array it is a view of.  The values    *)
(* the calls return are followed in SpecLane and SpecStokes, not here.     *)
(***************************************************************************)
OfTheFile == {"memdata", "_timestamps", "_beams", "_channels"}

ReadOnly == "ValueError: assignment destination is read-only"

arithmetic_view(buf) ==
    \* mutant: the reconstruction hands on the view it was computed from
    buf

\* np.sum(x, axis=4), x[..., 0] - x[..., 1], x[..., i] * 2, v / i, np.abs,
\* np.angle: the result is a new array
arithmetic(buf) == "selection"

\* Stokes_X(self.data)[slice_val]: self.fft0[slice_val] and
\* self.fft1[slice_val] are views of the mapped file, data is computed from
\* them
getitem_buffer(kind) ==
    IF kind \in {"fracv", "argxy", "phasexy"}
    THEN arithmetic(arithmetic("memdata"))
    ELSE arithmetic("memdata")

\* ndarray.reshape: a view when the strides allow it, a copy when not
reshape_buffer(buf, copied) == IF copied THEN "reshaped" ELSE buf

\* NenuStokes.correct on data living in buf: the error raised and the arrays
\* written in place (bp_fft[:, p_idx] = 0., data *= bp[...])
correct_writes(buf, mode, fftlen, copies) ==
    LET data == reshape_buffer(reshape_buffer(buf, copies[1]), copies[2])
    IN  IF fftlen % 2 # 0
        THEN [raised |-> "ValueError: Problem with fftlen value!", writes |-> {}]
        ELSE CASE mode \in {"none", "median"} -> [raised |-> None, writes |-> {}]
               [] mode = "fft" -> [raised |-> None, writes |-> {"bp_fft"}]
               [] OTHER ->
                    IF fftlen \div 16 = 0
                    THEN [raised |-> "ValueError: Invalid number of FFT data points (0)",
                          writes |-> {}]
                    ELSE [raised |-> IF data = "memdata" THEN ReadOnly ELSE None,
                          writes |-> {data}]

Wrote(o, what, w) == [o |-> [o EXCEPT !.raised = what], writes |-> w]

\* Lane.select: the attributes after the call, the error raised and the
\* arrays written in place; f *= self.df and f += ... of _get_freq act on the
\* array np.tile made
select_writes(l, o, kind, mode, time, freq, beam, avail, copies) ==
    LET o3 == setters(l, o, time, freq, beam)
    IN  IF o3.raised # None THEN Wrote(o3, o3.raised, {})
        ELSE IF o3.time[2] - o3.time[1] < dt(l)
        THEN Wrote(o3, "ValueError: Time interval selected < dt", {})
        ELSE IF (o3.freq[2] - o3.freq[1]) * l.fftlen < FUnit
        THEN Wrote(o3, "ValueError: Frequency interval selected < df", {})
        ELSE IF _check_memory(l,
                    _t2bidx(l, o3.time[2], "high") + 1 - _t2bidx(l, o3.time[1], "low"),
                    _f2bidx(l, o3.beam, o3.freq[2], "high") + 1
                        - _f2bidx(l, o3.beam, o3.freq[1], "low"),
                    avail)
        THEN Wrote(o3, "MemoryError", {})
        ELSE IF Lower(kind) \notin allowed_stokes
        THEN Wrote(o3, "ValueError: Wrong Stokes parameter.", {"f"})
        ELSE LET c == correct_writes(getitem_buffer(Lower(kind)), mode,
                                     l.fftlen, copies)
             IN  Wrote(o3, c.raised, {"f"} \cup c.writes)

\* the loop of Lane.average from slab i on: each slab is selected with the
\* default bp_corr and stored in the arrays np.zeros made
RECURSIVE average_slabs(_, _, _, _, _, _, _, _, _, _, _)
average_slabs(l, r, kind, t0, step, freq, beam, avail, copies, i, nt) ==
    IF i >= nt \/ r.o.raised # None THEN r
    ELSE LET sl == select_writes(l, r.o, kind, "kaiser",
                                 <<t0 + i * step, t0 + (i + 1) * step>>,
                                 freq, beam, avail, copies)
         IN  average_slabs(l,
                 [o |-> sl.o,
                  writes |-> r.writes \cup sl.writes
                                 \cup (IF sl.o.raised = None THEN {"averaged"} ELSE {})],
                 kind, t0, step, freq, beam, avail, copies, i + 1, nt)

\* Lane.average with dt and df given
average_writes(l, o, kind, time, freq, beam, step, width, avail, copies) ==
    LET o3 == setters(l, o, time, freq, beam)
    IN  IF o3.raised # None THEN Wrote(o3, o3.raised, {})
        ELSE IF ((o3.time[2] - o3.time[1]) \div step)
                    * ((o3.freq[2] - o3.freq[1]) \div width) * 4 > avail
        THEN Wrote(o3, "MemoryError", {})
        ELSE average_slabs(l, [o |-> o3, writes |-> {}], kind, o3.time[1], step,
                           freq, beam, avail, copies, 0,
                           (o3.time[2] - o3.time[1]) \div step)

MaxFrameCalls == 2      \* calls on an opened file

FrameFiles ==
    {[id |-> 0, TIMESTAMP |-> 10, ntb |-> 2, nffte |-> 1, fftlen |-> n,
      nfft2int |-> 1, beams |-> <<0, 1>>, channels |-> <<5, 9>>] : n \in {2, 3, 16}}

FrameKinds == {"I", "FracV", "Z"}

Copies == {<<FALSE, FALSE>>, <<FALSE, TRUE>>, <<TRUE, TRUE>>}

\* time=, freq=, beam= and the memory available: everything by default, both
\* ranges clamped, a time range of no width, a frequency range the wrong way
\* round, the other beam with little memory
FrameRequests(l) ==
    {<<NoRange, NoRange, NoBeam, 100000>>,
     <<<<time_min(l) - Margin, time_min(l) + block_dt(l)>>,
       <<freq_min(l, 0) - Margin, freq_max(l, 0)>>, NoBeam, 100000>>,
     <<<<time_min(l), time_min(l)>>, NoRange, 1, 100000>>,
     <<NoRange, <<freq_max(l, 0), freq_min(l, 0)>>, NoBeam, 100000>>,
     <<NoRange, NoRange, 1, 100>>}

\* what was read when the file was opened
Loaded(l) ==
    [fftlen |-> l.fftlen, nfft2int |-> l.nfft2int, nffte |-> l.nffte,
     TIMESTAMP |-> l.TIMESTAMP, _timestamps |-> _timestamps(l),
     _beams |-> l.beams, _channels |-> l.channels, memdata |-> l.id]

InitFrame ==
    /\ lane \in FrameFiles
    /\ req = None
    /\ _beam = NewLane(lane).beam
    /\ _time = NewLane(lane).time
    /\ _freq = NewLane(lane).freq
    /\ warnings = 0
    /\ raised = None
    /\ spec = NoSpec
    /\ file = [n |-> 0, op |-> "open", held |-> Loaded(lane), writes |-> {}]
    /\ IdxIdle /\ SpIdle /\ OpsIdle /\ StkIdle /\ LselIdle /\ CallsIdle

\* a write to an array of the file changes nothing of a file mapped with
\* mode='r': it raises
FrameResult(r, name) ==
    /\ _beam' = r.o.beam
    /\ _time' = r.o.time
    /\ _freq' = r.o.freq
    /\ warnings' = r.o.warnings
    /\ raised' = r.o.raised
    /\ file' = [n |-> file.n + 1, op |-> name, held |-> file.held,
                writes |-> file.writes \cup r.writes]
    /\ UNCHANGED <<lane, req, spec, varsIdx, varsSp, ops, stk, lsel, calls>>

FrameSelect ==
    /\ file.n < MaxFrameCalls
    /\ \E kind \in FrameKinds, mode \in BandpassModes, q \in FrameRequests(lane),
          copies \in Copies :
          FrameResult(select_writes(lane, Self, kind, mode, q[1], q[2], q[3],
                                    q[4], copies),
                      "select")

FrameAverage ==
    /\ file.n < MaxFrameCalls
    /\ \E kind \in FrameKinds, q \in FrameRequests(lane), step \in {16, 32},
          copies \in Copies :
          FrameResult(average_writes(lane, Self, kind, q[1], q[2], q[3], step,
                                     FUnit, q[4], copies),
                      "average")

NextFrame ==
    \/ FrameSelect
    \/ FrameAverage

SpecFrame == InitFrame /\ [][NextFrame]_vars

\* C27: after any sequence of select and average calls on an opened file,
\* failing or not and with any bandpass mode, the header fields, the block
\* timestamps, the beam and channel tables and the mapped samples are what
\* was read at opening, and no array written in place by a call is an array
\* of the file.
C27_FileUntouched ==
    /\ file.held = Loaded(lane)
    /\ file.writes \cap OfTheFile = {}
    /\ raised # ReadOnly

\* a selection was corrected in place after another call had failed
C27_Witness ==
    /\ file.n = 2
    /\ raised = None
    /\ "selection" \in file.writes \/ "reshaped" \in file.writes
    /\ "bp_fft" \in file.writes \/ "averaged" \in file.writes

(***************************************************************************)
(* SpecIdx: idx_of applied to every non-decreasing array of up to MaxLen   *)
(* elements and every value around them.  low/high are -1 until computed.  *)
(***************************************************************************)
InitIdx ==
    /\ array \in {a \in SeqsUpTo(0..MaxVal, MaxLen) : IsSorted(a)}
    /\ value \in (0 - 1)..(MaxVal + 1)
    /\ low = 0 - 1
    /\ high = 0 - 1
    /\ raised = None /\ spec = NoSpec
    /\ LaneIdle /\ SpIdle /\ ExtIdle

IdxLow ==
    /\ low = 0 - 1
    /\ low' = idx_of(array, value, "low")
    /\ UNCHANGED <<array, value, high, varsLane, varsOut, varsSp, varsExt>>

IdxHigh ==
    /\ high = 0 - 1
    /\ high' = idx_of(array, value, "high")
    /\ UNCHANGED <<array, value, low, varsLane, varsOut, varsSp, varsExt>>

NextIdx == IdxLow \/ IdxHigh

SpecIdx == InitIdx /\ [][NextIdx]_vars

BothFound == low >= 0 /\ high >= 0

\* C1: for a non-decreasing array and a value v with array[0] <= v <= array[-1],
\* low = idx_of(array, v, 'low') and high = idx_of(array, v, 'high') satisfy
\* array[low] <= v <= array[high] and low <= high.
C1_Bracket ==
    (BothFound /\ At(array, 0) <= value /\ value <= At(array, Len(array) - 1))
        => /\ At(array, low) <= value
           /\ value <= At(array, high)
           /\ low <= high

\* C1 witness: a value strictly between two different elements, both searches done.
C1_Witness ==
    /\ BothFound
    /\ At(array, 0) < value /\ value < At(array, Len(array) - 1)
    /\ low < high
    /\ At(array, low) < value /\ value < At(array, high)

\* C2 as amended: 'low' gives the least index of the greatest element <= value
\* (0 if no element is <= value); 'high' gives the least index whose element is
\* >= value (the last index if no element is >= value).
C2_FirstIndex ==
    LET n  == Len(array)
        le == {i \in 0..(n - 1) : At(array, i) <= value}
        ge == {i \in 0..(n - 1) : At(array, i) >= value}
    IN  /\ low >= 0 =>
              low = IF le = {} THEN 0
                    ELSE SetMin({i \in le : At(array, i) = At(array, SetMax(le))})
        /\ high >= 0 =>
              high = IF ge = {} THEN n - 1 ELSE SetMin(ge)

\* C2 witness: an array with a repeated element equal to the value, both searches
\* done, 'low' on the first of the repeated elements.
C2_Witness ==
    /\ BothFound
    /\ \E i \in 0..(Len(array) - 2) :
          At(array, i) = value /\ At(array, i + 1) = value /\ low = i

\* C2 as stated: 'low' gives the greatest index whose element is <= value (0 if
\* none); 'high' the least index whose element is >= value (last index if none).
C2_Original ==
    LET n  == Len(array)
        le == {i \in 0..(n - 1) : At(array, i) <= value}
        ge == {i \in 0..(n - 1) : At(array, i) >= value}
    IN  /\ low >= 0 => low = IF le = {} THEN 0 ELSE SetMax(le)
        /\ high >= 0 => high = IF ge = {} THEN n - 1 ELSE SetMin(ge)

====
